---- MODULE Spec2Model ----
(***************************************************************************)
(* Names: sequences of masked string components joined by a one-character  *)
(* delimiter (adap-names, homeworks b01..b06).                             *)
(*                                                                         *)
(* A JavaScript string is modelled as a sequence of one-character strings, *)
(* so that indexing, length and concatenation are what the code computes.  *)
(* Indices of the public operations are 0-based as in the code; sequence   *)
(* positions are 1-based.                                                  *)
(***************************************************************************)
EXTENDS Integers, Sequences, FiniteSets, TLC

VARIABLES mut, mlast, recv, ret, vlast, na, nb, cmp, txt, tres

vars == <<mut, mlast, recv, ret, vlast, na, nb, cmp, txt, tres>>

(***************************************************************************)
(* Bounds of the model.                                                    *)
(***************************************************************************)
MaxComps == 3
MaxSrc == 2
LongLen == 4
MaxText == 4

(***************************************************************************)
(* Characters and strings.                                                 *)
(***************************************************************************)
ESCAPE_CHARACTER == "\\"
DEFAULT_DELIMITER == "."

\* null / undefined: values outside the strings over the alphabet.
Null == <<"null">>
Undef == <<"undefined">>

IsNullOrUndefined(v) == v = Null \/ v = Undef

\* null passed where a Name is expected.
NullName == [isNull |-> TRUE]

\* The component strings the operations are called with.
EMPTY == <<>>
CompInputs == { EMPTY, <<"a">>, <<".">>, <<"\\", ".">>, <<"\\">> }

\* The delimiter arguments a constructor is called with (Undef: omitted).
DelimInputs == { Undef, <<".">>, <<"#">>, <<"\\">>, <<>>, <<".", ".">> }

\* The printable ASCII characters in the order of their codes: 32 to 95 and
\* 97 to 126 (the grave accent, 96, cannot be written in a string here).
AsciiUpTo95 ==
    <<
       " ", "!", "\"", "#", "$", "%", "&", "'", "(", ")", "*", "+",
       ",", "-", ".", "/", "0", "1", "2", "3", "4", "5", "6", "7",
       "8", "9", ":", ";", "<", "=", ">", "?", "@", "A", "B", "C",
       "D", "E", "F", "G", "H", "I", "J", "K", "L", "M", "N", "O",
       "P", "Q", "R", "S", "T", "U", "V", "W", "X", "Y", "Z", "[",
       "\\", "]", "^", "_"
    >>
AsciiFrom97 ==
    <<
       "a", "b", "c", "d", "e", "f", "g", "h", "i", "j", "k", "l",
       "m", "n", "o", "p", "q", "r", "s", "t", "u", "v", "w", "x",
       "y", "z", "{", "|", "}", "~"
    >>

\* s.charCodeAt(i) for a printable ASCII character.
CharCode(ch) ==
    IF \E k \in 1..Len(AsciiUpTo95) : AsciiUpTo95[k] = ch
    THEN 31 + (CHOOSE k \in 1..Len(AsciiUpTo95) : AsciiUpTo95[k] = ch)
    ELSE 96 + (CHOOSE k \in 1..Len(AsciiFrom97) : AsciiFrom97[k] = ch)

Min(a, b) == IF a < b THEN a ELSE b

\* Array.prototype.join: undefined and null elements are joined as "".
RECURSIVE Join(_, _)
Join(components, delimiter) ==
    IF Len(components) = 0 THEN <<>>
    ELSE LET first == IF IsNullOrUndefined(components[1]) THEN <<>> ELSE components[1]
         IN  IF Len(components) = 1 THEN first
             ELSE first \o <<delimiter>> \o Join(Tail(components), delimiter)

\* components[i] (0-based); undefined outside the array.
ArrayGet(components, i) ==
    IF i >= 0 /\ i < Len(components) THEN components[i + 1] ELSE Undef

\* components[i] = c (0-based) for i >= 0; writing past the end extends the array.
ArraySet(components, i, c) ==
    IF i < Len(components) THEN [components EXCEPT ![i + 1] = c]
    ELSE components \o [k \in 1..(i - Len(components)) |-> Undef] \o <<c>>

\* components.splice(i, 0, c) for i >= 0; a start past the end is clamped.
SpliceInsert(components, i, c) ==
    LET at == Min(i, Len(components))
    IN  SubSeq(components, 1, at) \o <<c>> \o SubSeq(components, at + 1, Len(components))

\* components.splice(i, 1) for i >= 0; nothing is removed past the end.
SpliceRemove(components, i) ==
    IF i < Len(components)
    THEN SubSeq(components, 1, i) \o SubSeq(components, i + 2, Len(components))
    ELSE components

(***************************************************************************)
(* Escape grammar.                                                         *)
(***************************************************************************)
\* The validation as it would be if an escape character were accepted only
\* before the delimiter or another escape character.
RECURSIVE MaskScan_OnlySpecialsEscaped(_, _, _)
MaskScan_OnlySpecialsEscaped(component, delimiter, i) ==
    IF i > Len(component) THEN "ok"
    ELSE IF component[i] = ESCAPE_CHARACTER
         THEN IF i + 1 > Len(component) THEN "escape_at_end"
              ELSE IF component[i + 1] \notin {delimiter, ESCAPE_CHARACTER}
                   THEN "superfluous_escape"
                   ELSE MaskScan_OnlySpecialsEscaped(component, delimiter, i + 2)
         ELSE IF component[i] = delimiter THEN "unescaped_delimiter"
              ELSE MaskScan_OnlySpecialsEscaped(component, delimiter, i + 1)

\* The scan of assertComponentProperlyMasked from position i (1-based):
\* "ok", "escape_at_end" or "unescaped_delimiter".
RECURSIVE MaskScan(_, _, _)
MaskScan(component, delimiter, i) ==
    IF i > Len(component) THEN "ok"
    ELSE IF component[i] = ESCAPE_CHARACTER
         THEN IF i + 1 > Len(component) THEN "escape_at_end"
              ELSE MaskScan(component, delimiter, i + 2)
         ELSE IF component[i] = delimiter THEN "unescaped_delimiter"
              ELSE MaskScan(component, delimiter, i + 1)

ComponentProperlyMasked(component, delimiter) ==
    MaskScan(component, delimiter, 1) = "ok"

RECURSIVE UnmaskFrom(_, _)
UnmaskFrom(component, i) ==
    IF i > Len(component) THEN <<>>
    ELSE IF component[i] = ESCAPE_CHARACTER /\ i + 1 <= Len(component)
         THEN <<component[i + 1]>> \o UnmaskFrom(component, i + 2)
         ELSE <<component[i]>> \o UnmaskFrom(component, i + 1)

\* doUnmask as it would be if it dropped every escape character.
doUnmask_DropEscapes(component) ==
    SelectSeq(component, LAMBDA ch : ch # ESCAPE_CHARACTER)

doUnmask(component) == UnmaskFrom(component, 1)

\* doMask as it would be if only the delimiter were escaped.
RECURSIVE doMask_DelimiterOnly(_, _)
doMask_DelimiterOnly(component, delimiter) ==
    IF Len(component) = 0 THEN <<>>
    ELSE (IF component[1] = delimiter
          THEN <<ESCAPE_CHARACTER, component[1]>> ELSE <<component[1]>>)
         \o doMask_DelimiterOnly(Tail(component), delimiter)

RECURSIVE doMask(_, _)
doMask(component, delimiter) ==
    IF Len(component) = 0 THEN <<>>
    ELSE LET char == component[1]
         IN  (IF char = delimiter \/ char = ESCAPE_CHARACTER
              THEN <<ESCAPE_CHARACTER, char>> ELSE <<char>>)
             \o doMask(Tail(component), delimiter)

\* A tokenizer loop that splits at every delimiter, escaped or not.
RECURSIVE ParseFrom_EscapeIgnored(_, _, _, _, _)
ParseFrom_EscapeIgnored(name, delimiter, i, cur, done) ==
    IF i > Len(name) THEN Append(done, cur)
    ELSE IF name[i] = delimiter
         THEN ParseFrom_EscapeIgnored(name, delimiter, i + 1, <<>>, Append(done, cur))
         ELSE ParseFrom_EscapeIgnored(name, delimiter, i + 1, Append(cur, name[i]), done)

\* The tokenizer's loop: i is the position, cur the current component, done
\* the components pushed so far.
RECURSIVE ParseFrom(_, _, _, _, _)
ParseFrom(name, delimiter, i, cur, done) ==
    IF i > Len(name) THEN Append(done, cur)
    ELSE IF name[i] = ESCAPE_CHARACTER /\ i + 1 <= Len(name)
         THEN ParseFrom(name, delimiter, i + 2, cur \o <<name[i], name[i + 1]>>, done)
         ELSE IF name[i] = delimiter
              THEN ParseFrom(name, delimiter, i + 1, <<>>, Append(done, cur))
              ELSE ParseFrom(name, delimiter, i + 1, Append(cur, name[i]), done)

\* The tokenizer as it would be without the special case of the empty string.
parseComponents_EmptyIsOne(name, delimiter) ==
    ParseFrom(name, delimiter, 1, <<>>, <<>>)

parseComponents(name, delimiter) ==
    IF Len(name) = 0 THEN <<>> ELSE ParseFrom(name, delimiter, 1, <<>>, <<>>)

\* assertValidDelimiter as it would be without the test for the escape
\* character.
ValidDelimiter_EscapeAllowed(delimiter) ==
    /\ ~IsNullOrUndefined(delimiter)
    /\ Len(delimiter) = 1

\* assertValidDelimiter on a delimiter argument that is a string.
ValidDelimiter(delimiter) ==
    /\ ~IsNullOrUndefined(delimiter)
    /\ Len(delimiter) = 1
    /\ delimiter[1] # ESCAPE_CHARACTER

(***************************************************************************)
(* Name objects.  variant names the class: the array-backed classes keep   *)
(* components, the string-backed ones keep name (and, where the class      *)
(* caches it, noComponents).                                               *)
(***************************************************************************)
NoName == [variant |-> "none", delimiter |-> DEFAULT_DELIMITER,
           components |-> <<>>, name |-> <<>>, noComponents |-> 0]

ArrayVariants == {"B04StringArrayName", "B03StringArrayName", "B06StringArrayName"}
CachedVariants == {"B03StringName", "B06StringName"}
MutVariants == {"B04StringArrayName", "B03StringArrayName", "B03StringName", "B02StringName"}

OK_ == "ok"
IAE == "IllegalArgumentException"
ISE == "InvalidStateException"
MFE == "MethodFailedException"
ERR == "Error"

\* What a method call leaves behind: the receiver after the call and how the
\* call ended.
Done(n) == [self |-> n, outcome |-> OK_]
Raise(n, kind) == [self |-> n, outcome |-> kind]

\* Sequences over S of length 0..k.
SeqsUpTo(S, k) == UNION { [1..m -> S] : m \in 0..k }

(***************************************************************************)
(* Storage primitives of the mutable classes.                              *)
(***************************************************************************)
StoredComponents(n) ==
    IF n.variant \in ArrayVariants THEN n.components
    ELSE parseComponents(n.name, n.delimiter)

GetNoComponents(n) ==
    CASE n.variant \in ArrayVariants -> Len(n.components)
      [] n.variant \in CachedVariants -> n.noComponents
      [] OTHER -> Len(parseComponents(n.name, n.delimiter))

DoGetComponent(n, i) == ArrayGet(StoredComponents(n), i)

ArrDoSetComponent(n, i, c) == [n EXCEPT !.components = ArraySet(@, i, c)]
ArrDoInsert(n, i, c) == [n EXCEPT !.components = SpliceInsert(@, i, c)]
ArrDoAppend(n, c) == [n EXCEPT !.components = Append(@, c)]
\* A doRemove that leaves the list as it is.
ArrDoRemove_RemovesNothing(n, i) == n
ArrDoRemove(n, i) == [n EXCEPT !.components = SpliceRemove(@, i)]

StrDoSetComponent(n, i, c) ==
    LET components == ArraySet(parseComponents(n.name, n.delimiter), i, c)
    IN  [n EXCEPT !.name = Join(components, n.delimiter)]

StrDoInsert(n, i, c) ==
    LET components == SpliceInsert(parseComponents(n.name, n.delimiter), i, c)
    IN  [n EXCEPT !.name = Join(components, n.delimiter),
                  !.noComponents = Len(components)]

StrDoAppend(n, c) ==
    [n EXCEPT !.name = IF n.noComponents = 0 THEN c
                       ELSE n.name \o <<n.delimiter>> \o c,
              !.noComponents = n.noComponents + 1]

StrDoRemove(n, i) ==
    LET components == SpliceRemove(parseComponents(n.name, n.delimiter), i)
    IN  [n EXCEPT !.name = Join(components, n.delimiter),
                  !.noComponents = Len(components)]

DoSetComponent(n, i, c) ==
    IF n.variant \in ArrayVariants THEN ArrDoSetComponent(n, i, c)
    ELSE StrDoSetComponent(n, i, c)
DoInsert(n, i, c) ==
    IF n.variant \in ArrayVariants THEN ArrDoInsert(n, i, c)
    ELSE StrDoInsert(n, i, c)
DoAppend(n, c) ==
    IF n.variant \in ArrayVariants THEN ArrDoAppend(n, c)
    ELSE StrDoAppend(n, c)
DoRemove(n, i) ==
    IF n.variant \in ArrayVariants THEN ArrDoRemove(n, i)
    ELSE StrDoRemove(n, i)

\* The loop of concat: doAppend(other.getComponent(i)) for i = 0, 1, ...
RECURSIVE AppendAll(_, _)
AppendAll(n, components) ==
    IF Len(components) = 0 THEN n
    ELSE AppendAll(DoAppend(n, components[1]), Tail(components))

(***************************************************************************)
(* Assertions shared by the abstract classes.                              *)
(***************************************************************************)
\* assertIsValidIndex(i, allowEnd) against a component count.
IsValidIndex(count, i, allowEnd) ==
    IF count = 0 /\ ~allowEnd THEN FALSE
    ELSE LET max == IF allowEnd THEN count ELSE count - 1
         IN  i >= 0 /\ i <= max

\* assertClassInvariants: the delimiter is one character other than the
\* escape character and every component doGetComponent(i), i < count, is
\* properly masked.
ClassInvariantsHold(n) ==
    /\ n.delimiter # ESCAPE_CHARACTER
    /\ GetNoComponents(n) >= 0
    /\ \A i \in 0..(GetNoComponents(n) - 1) :
           /\ ~IsNullOrUndefined(DoGetComponent(n, i))
           /\ ComponentProperlyMasked(DoGetComponent(n, i), n.delimiter)

(***************************************************************************)
(* The mutable contract-checked abstract class (homework b04): every       *)
(* method asserts the class invariants, then its preconditions, mutates,   *)
(* asserts the invariants again and then its postconditions.               *)
(***************************************************************************)
B04SetComponent(n, i, c) ==
    IF ~ClassInvariantsHold(n) THEN Raise(n, ISE)
    ELSE IF ~IsValidIndex(GetNoComponents(n), i, FALSE) THEN Raise(n, IAE)
    ELSE IF IsNullOrUndefined(c) THEN Raise(n, IAE)
    ELSE IF ~ComponentProperlyMasked(c, n.delimiter) THEN Raise(n, IAE)
    ELSE LET n2 == DoSetComponent(n, i, c)
         IN  IF ~ClassInvariantsHold(n2) THEN Raise(n2, ISE)
             ELSE IF DoGetComponent(n2, i) # c THEN Raise(n2, MFE)
             ELSE Done(n2)

\* B04Insert with the component validated only after doInsert has run.
B04Insert_ValidateAfter(n, i, c) ==
    IF ~ClassInvariantsHold(n) THEN Raise(n, ISE)
    ELSE IF ~IsValidIndex(GetNoComponents(n), i, TRUE) THEN Raise(n, IAE)
    ELSE IF IsNullOrUndefined(c) THEN Raise(n, IAE)
    ELSE LET n2 == DoInsert(n, i, c)
         IN  IF ~ComponentProperlyMasked(c, n.delimiter) THEN Raise(n2, IAE)
             ELSE Done(n2)

B04Insert(n, i, c) ==
    IF ~ClassInvariantsHold(n) THEN Raise(n, ISE)
    ELSE IF ~IsValidIndex(GetNoComponents(n), i, TRUE) THEN Raise(n, IAE)
    ELSE IF IsNullOrUndefined(c) THEN Raise(n, IAE)
    ELSE IF ~ComponentProperlyMasked(c, n.delimiter) THEN Raise(n, IAE)
    ELSE LET oldSize == GetNoComponents(n)
             n2 == DoInsert(n, i, c)
         IN  IF ~ClassInvariantsHold(n2) THEN Raise(n2, ISE)
             ELSE IF GetNoComponents(n2) # oldSize + 1 THEN Raise(n2, MFE)
             ELSE IF DoGetComponent(n2, i) # c THEN Raise(n2, MFE)
             ELSE Done(n2)

B04Append(n, c) ==
    IF ~ClassInvariantsHold(n) THEN Raise(n, ISE)
    ELSE IF IsNullOrUndefined(c) THEN Raise(n, IAE)
    ELSE IF ~ComponentProperlyMasked(c, n.delimiter) THEN Raise(n, IAE)
    ELSE LET oldSize == GetNoComponents(n)
             n2 == DoAppend(n, c)
         IN  IF ~ClassInvariantsHold(n2) THEN Raise(n2, ISE)
             ELSE IF GetNoComponents(n2) # oldSize + 1 THEN Raise(n2, MFE)
             ELSE IF DoGetComponent(n2, oldSize) # c THEN Raise(n2, MFE)
             ELSE Done(n2)

B04Remove(n, i) ==
    IF ~ClassInvariantsHold(n) THEN Raise(n, ISE)
    ELSE IF ~IsValidIndex(GetNoComponents(n), i, FALSE) THEN Raise(n, IAE)
    ELSE LET oldSize == GetNoComponents(n)
             n2 == DoRemove(n, i)
         IN  IF ~ClassInvariantsHold(n2) THEN Raise(n2, ISE)
             ELSE IF GetNoComponents(n2) # oldSize - 1 THEN Raise(n2, MFE)
             ELSE Done(n2)

\* other is the argument Name as the receiver sees it through isEmpty,
\* getNoComponents and getComponent: its delimiter and component list (or NullName).
B04Concat(n, other) ==
    IF ~ClassInvariantsHold(n) THEN Raise(n, ISE)
    ELSE IF other = NullName THEN Raise(n, IAE)
    ELSE IF Len(other.components) = 0 THEN Done(n)
    ELSE LET oldSize == GetNoComponents(n)
             n2 == AppendAll(n, other.components)
         IN  IF ~ClassInvariantsHold(n2) THEN Raise(n2, ISE)
             ELSE IF GetNoComponents(n2) # oldSize + Len(other.components)
                  THEN Raise(n2, MFE)
             ELSE Done(n2)

(***************************************************************************)
(* The mutable abstract class without contract classes (homework b03):     *)
(* preconditions only, raised as plain Error.                              *)
(***************************************************************************)
B03SetComponent(n, i, c) ==
    IF ~IsValidIndex(GetNoComponents(n), i, FALSE) THEN Raise(n, ERR)
    ELSE IF IsNullOrUndefined(c) THEN Raise(n, ERR)
    ELSE IF ~ComponentProperlyMasked(c, n.delimiter) THEN Raise(n, ERR)
    ELSE Done(DoSetComponent(n, i, c))

B03Insert(n, i, c) ==
    IF ~IsValidIndex(GetNoComponents(n), i, TRUE) THEN Raise(n, ERR)
    ELSE IF IsNullOrUndefined(c) THEN Raise(n, ERR)
    ELSE IF ~ComponentProperlyMasked(c, n.delimiter) THEN Raise(n, ERR)
    ELSE Done(DoInsert(n, i, c))

B03Append(n, c) ==
    IF IsNullOrUndefined(c) THEN Raise(n, ERR)
    ELSE IF ~ComponentProperlyMasked(c, n.delimiter) THEN Raise(n, ERR)
    ELSE Done(DoAppend(n, c))

B03Remove(n, i) ==
    IF ~IsValidIndex(GetNoComponents(n), i, FALSE) THEN Raise(n, ERR)
    ELSE Done(DoRemove(n, i))

B03Concat(n, other) ==
    IF other = NullName THEN Raise(n, ERR)
    ELSE IF Len(other.components) = 0 THEN Done(n)
    ELSE Done(AppendAll(n, other.components))

(***************************************************************************)
(* The mutable flat-string class of homework b02: no cached count, every   *)
(* method re-tokenizes name.                                               *)
(***************************************************************************)
\* assertIsValidIndex of b02: no special case for the empty collection.
B02IsValidIndex(n, i, allowEnd) ==
    LET componentCount == Len(parseComponents(n.name, n.delimiter))
        max == IF allowEnd THEN componentCount ELSE componentCount - 1
    IN  i >= 0 /\ i <= max

B02SetComponent(n, i, c) ==
    IF ~B02IsValidIndex(n, i, FALSE) THEN Raise(n, ERR)
    ELSE IF IsNullOrUndefined(c) THEN Raise(n, ERR)
    ELSE IF ~ComponentProperlyMasked(c, n.delimiter) THEN Raise(n, ERR)
    ELSE Done(StrDoSetComponent(n, i, c))

B02Insert(n, i, c) ==
    IF ~B02IsValidIndex(n, i, TRUE) THEN Raise(n, ERR)
    ELSE IF IsNullOrUndefined(c) THEN Raise(n, ERR)
    ELSE IF ~ComponentProperlyMasked(c, n.delimiter) THEN Raise(n, ERR)
    ELSE LET components == SpliceInsert(parseComponents(n.name, n.delimiter), i, c)
         IN  Done([n EXCEPT !.name = Join(components, n.delimiter)])

B02Append(n, c) ==
    IF IsNullOrUndefined(c) THEN Raise(n, ERR)
    ELSE IF ~ComponentProperlyMasked(c, n.delimiter) THEN Raise(n, ERR)
    ELSE Done([n EXCEPT !.name = IF Len(n.name) > 0
                                 THEN n.name \o <<n.delimiter>> \o c
                                 ELSE c])

B02Remove(n, i) ==
    IF ~B02IsValidIndex(n, i, FALSE) THEN Raise(n, ERR)
    ELSE LET components == SpliceRemove(parseComponents(n.name, n.delimiter), i)
         IN  Done([n EXCEPT !.name = Join(components, n.delimiter)])

\* concat of b02 calls the checked append for each component of other and
\* stops at the first one that raises.
RECURSIVE B02AppendEach(_, _)
B02AppendEach(n, components) ==
    IF Len(components) = 0 THEN Done(n)
    ELSE LET r == B02Append(n, components[1])
         IN  IF r.outcome # OK_ THEN r
             ELSE B02AppendEach(r.self, Tail(components))

B02Concat(n, other) ==
    IF other = NullName THEN Raise(n, "TypeError")
    ELSE IF Len(other.components) = 0 THEN Done(n)
    ELSE B02AppendEach(n, other.components)

(***************************************************************************)
(* Constructors of the mutable classes.  A constructor that raises yields  *)
(* no object (NoName).                                                     *)
(***************************************************************************)
ArrayName(variant, source, d) ==
    [variant |-> variant, delimiter |-> d, components |-> source,
     name |-> <<>>, noComponents |-> 0]

StringName(variant, source, d, count) ==
    [variant |-> variant, delimiter |-> d, components |-> <<>>,
     name |-> source, noComponents |-> count]

AllProperlyMasked(components, d) ==
    \A k \in 1..Len(components) : ComponentProperlyMasked(components[k], d)

\* new StringArrayName(source, delimiter) of b04: super(delimiter) with the
\* default parameter, initialize(source), assertClassInvariants().
B04NewStringArrayName(source, delimiter) ==
    LET d == IF delimiter = Undef THEN <<DEFAULT_DELIMITER>> ELSE delimiter
    IN  IF ~ValidDelimiter(d) THEN Raise(NoName, IAE)
        ELSE IF IsNullOrUndefined(source) THEN Raise(NoName, IAE)
        ELSE IF ~(Len(source) > 0) THEN Raise(NoName, IAE)
        ELSE IF ~AllProperlyMasked(source, d[1]) THEN Raise(NoName, IAE)
        ELSE Done(ArrayName("B04StringArrayName", source, d[1]))

\* new StringArrayName(source, delimiter) of b03.
B03NewStringArrayName(source, delimiter) ==
    IF delimiter # Undef /\ ~ValidDelimiter(delimiter) THEN Raise(NoName, ERR)
    ELSE LET d == IF delimiter = Undef THEN DEFAULT_DELIMITER ELSE delimiter[1]
         IN  IF Len(source) = 0 THEN Raise(NoName, ERR)
             ELSE IF ~AllProperlyMasked(source, d) THEN Raise(NoName, ERR)
             ELSE Done(ArrayName("B03StringArrayName", source, d))

\* new StringName(source, delimiter) of b03: the count of components is
\* cached at construction.
B03NewStringName(source, delimiter) ==
    IF delimiter # Undef /\ ~ValidDelimiter(delimiter) THEN Raise(NoName, ERR)
    ELSE LET d == IF delimiter = Undef THEN DEFAULT_DELIMITER ELSE delimiter[1]
             components == parseComponents(source, d)
         IN  IF Len(components) = 0 THEN Raise(NoName, ERR)
             ELSE IF ~AllProperlyMasked(components, d) THEN Raise(NoName, ERR)
             ELSE Done(StringName("B03StringName", source, d, Len(components)))

\* new StringName(source, delimiter) of b02.
B02NewStringName(source, delimiter) ==
    IF delimiter # Undef /\ ~ValidDelimiter(delimiter) THEN Raise(NoName, ERR)
    ELSE LET d == IF delimiter = Undef THEN DEFAULT_DELIMITER ELSE delimiter[1]
             components == parseComponents(source, d)
         IN  IF Len(components) = 0 THEN Raise(NoName, ERR)
             ELSE IF ~AllProperlyMasked(components, d) THEN Raise(NoName, ERR)
             ELSE Done(StringName("B02StringName", source, d, 0))

\* initialize(source, delimiter) of the b03 and b02 classes is public: called
\* on a Name that exists it replaces the delimiter and the content, and a
\* call that throws leaves what it had assigned before the throw.
B03ArrInitialize(n, source, delimiter) ==
    IF delimiter # Undef /\ ~ValidDelimiter(delimiter) THEN Raise(n, ERR)
    ELSE LET d == IF delimiter = Undef THEN n.delimiter ELSE delimiter[1]
             n2 == [n EXCEPT !.delimiter = d, !.components = source]
         IN  IF Len(source) = 0 THEN Raise(n2, ERR)
             ELSE IF ~AllProperlyMasked(source, d) THEN Raise(n2, ERR)
             ELSE Done(n2)

\* The b03 StringName assigns name first, the delimiter after its
\* validation and the cached count after that.
B03StrInitialize(n, source, delimiter) ==
    LET n1 == [n EXCEPT !.name = source]
    IN  IF delimiter # Undef /\ ~ValidDelimiter(delimiter) THEN Raise(n1, ERR)
        ELSE LET d == IF delimiter = Undef THEN n.delimiter ELSE delimiter[1]
                 components == parseComponents(source, d)
                 n2 == [n1 EXCEPT !.delimiter = d, !.noComponents = Len(components)]
             IN  IF Len(components) = 0 THEN Raise(n2, ERR)
                 ELSE IF ~AllProperlyMasked(components, d) THEN Raise(n2, ERR)
                 ELSE Done(n2)

B02Initialize(n, source, delimiter) ==
    LET n1 == [n EXCEPT !.name = source]
    IN  IF delimiter # Undef /\ ~ValidDelimiter(delimiter) THEN Raise(n1, ERR)
        ELSE LET d == IF delimiter = Undef THEN n.delimiter ELSE delimiter[1]
                 components == parseComponents(source, d)
                 n2 == [n1 EXCEPT !.delimiter = d]
             IN  IF Len(components) = 0 THEN Raise(n2, ERR)
                 ELSE IF ~AllProperlyMasked(components, d) THEN Raise(n2, ERR)
                 ELSE Done(n2)

\* The sources the constructors are called with: component lists, and the
\* flat strings that join them.
\* One longer list, so that canonical strings get long enough for the hash
\* code to leave 32 bits.
LongSource == [k \in 1..LongLen |-> <<"a">>]

ListInputs == SeqsUpTo(CompInputs, MaxSrc) \cup {LongSource}
FlatInputs == { Join(cs, ch) : cs \in ListInputs, ch \in {".", "#"} }

\* What initialize is called with on a Name that exists: an empty source, a
\* source of one and of two components, one with a bare '.' and one with a
\* lone escape character; the delimiter left out, '.', '#' or the escape
\* character.
InitializeLists ==
    { <<>>, <<<<"a">>>>, <<<<"a">>, <<"a">>>>, <<<<".">>>>, <<<<"\\">>>> }
InitializeStrings == { Join(cs, DEFAULT_DELIMITER) : cs \in InitializeLists }
InitializeDelims == { Undef, <<".">>, <<"#">>, <<"\\">> }

(***************************************************************************)
(* Dispatch of a public call on the receiver's class.                      *)
(***************************************************************************)
SetComponent(n, i, c) ==
    CASE n.variant = "B04StringArrayName" -> B04SetComponent(n, i, c)
      [] n.variant = "B02StringName" -> B02SetComponent(n, i, c)
      [] OTHER -> B03SetComponent(n, i, c)

Insert(n, i, c) ==
    CASE n.variant = "B04StringArrayName" -> B04Insert(n, i, c)
      [] n.variant = "B02StringName" -> B02Insert(n, i, c)
      [] OTHER -> B03Insert(n, i, c)

AppendComponent(n, c) ==
    CASE n.variant = "B04StringArrayName" -> B04Append(n, c)
      [] n.variant = "B02StringName" -> B02Append(n, c)
      [] OTHER -> B03Append(n, c)

Remove(n, i) ==
    CASE n.variant = "B04StringArrayName" -> B04Remove(n, i)
      [] n.variant = "B02StringName" -> B02Remove(n, i)
      [] OTHER -> B03Remove(n, i)

Concat(n, other) ==
    CASE n.variant = "B04StringArrayName" -> B04Concat(n, other)
      [] n.variant = "B02StringName" -> B02Concat(n, other)
      [] OTHER -> B03Concat(n, other)

\* clone() of the contract-checked class: doClone calls the constructor with
\* the stored list, then the invariants and the postcondition
\* cloned.isEqual(this) are asserted. made is the Name returned.
B04Clone(n) ==
    LET cloned == B04NewStringArrayName(n.components, <<n.delimiter>>)
    IN  IF cloned.outcome # OK_
        THEN [self |-> n, outcome |-> cloned.outcome, made |-> NoName]
        ELSE IF ~ClassInvariantsHold(n)
        THEN [self |-> n, outcome |-> ISE, made |-> NoName]
        ELSE IF ~(/\ GetNoComponents(cloned.self) = GetNoComponents(n)
                  /\ cloned.self.delimiter = n.delimiter
                  /\ cloned.self.components = n.components)
        THEN [self |-> n, outcome |-> MFE, made |-> NoName]
        ELSE [self |-> n, outcome |-> OK_, made |-> cloned.self]

\* clone() of the b03 classes: the constructor called with the stored list
\* or the stored string.
B03Clone(n) ==
    LET cloned == IF n.variant = "B03StringArrayName"
                  THEN B03NewStringArrayName(n.components, <<n.delimiter>>)
                  ELSE B03NewStringName(n.name, <<n.delimiter>>)
    IN  [self |-> n, outcome |-> cloned.outcome, made |-> cloned.self]

Clone(n) ==
    CASE n.variant = "B04StringArrayName" -> B04Clone(n)
      [] OTHER -> B03Clone(n)

\* The argument Names of concat: valid Names of either delimiter with up to
\* MaxSrc components (a mutable Name emptied by remove has none), or null.
OtherNames ==
    { [delimiter |-> d, components |-> cs] :
        d \in {".", "#"}, cs \in ListInputs } 

ValidOthers == { o \in OtherNames : AllProperlyMasked(o.components, o.delimiter) }

\* The larger of the cached and the stored number of components.
Size(n) ==
    IF GetNoComponents(n) > Len(StoredComponents(n)) THEN GetNoComponents(n)
    ELSE Len(StoredComponents(n))

IndexInputs == -1..MaxComps

(***************************************************************************)
(* The mutable Names: one receiver, mut, and the last call made, mlast.    *)
(***************************************************************************)
NoCall == [op |-> "none", outcome |-> OK_]

\* The string a caller holds in the masking world: the string handed in
\* (s0), what the conversions applied so far made of it (s), the delimiter
\* and the conversions applied; and the last thing computed from it.
NoText == [given |-> FALSE, s0 |-> EMPTY, s |-> EMPTY, d |-> DEFAULT_DELIMITER, ops |-> <<>>]
NoResult == [op |-> "none", value |-> "none"]

Init ==
    /\ mut = NoName /\ mlast = NoCall
    /\ recv = NoName /\ ret = NoName
    /\ vlast = [op |-> "none", outcome |-> OK_, i |-> -1, c |-> Null, other |-> NoName,
                source |-> Undef, d |-> Undef, value |-> EMPTY,
           variant |-> "none"]
    /\ na = NoName /\ nb = NoName /\ cmp = NoCall
    /\ txt = NoText /\ tres = NoResult

ValUnchanged == UNCHANGED <<recv, ret, vlast>>
EqUnchanged == UNCHANGED <<na, nb, cmp>>
TextUnchanged == UNCHANGED <<txt, tres>>

MutReturn(op, r) ==
    /\ mut' = r.self
    /\ mlast' = [op |-> op, outcome |-> r.outcome]
    /\ ValUnchanged /\ EqUnchanged /\ TextUnchanged

MutNewArray(variant, source, delimiter) ==
    /\ mut = NoName
    /\ MutReturn("new",
         IF variant = "B04StringArrayName"
         THEN B04NewStringArrayName(source, delimiter)
         ELSE B03NewStringArrayName(source, delimiter))

MutNewString(variant, source, delimiter) ==
    /\ mut = NoName
    /\ MutReturn("new",
         IF variant = "B03StringName"
         THEN B03NewStringName(source, delimiter)
         ELSE B02NewStringName(source, delimiter))

\* initialize(source, delimiter) called on a Name that exists.
MutInitializeArray(source, delimiter) ==
    /\ mut.variant = "B03StringArrayName"
    /\ MutReturn("initialize", B03ArrInitialize(mut, source, delimiter))

MutInitializeString(source, delimiter) ==
    /\ mut.variant \in {"B03StringName", "B02StringName"}
    /\ MutReturn("initialize",
         IF mut.variant = "B03StringName"
         THEN B03StrInitialize(mut, source, delimiter)
         ELSE B02Initialize(mut, source, delimiter))

\* The caller drops the Name.
MutDiscard ==
    /\ mut # NoName
    /\ mut' = NoName /\ mlast' = NoCall
    /\ ValUnchanged /\ EqUnchanged /\ TextUnchanged

MutSetComponent(i, c) ==
    /\ mut # NoName
    /\ MutReturn("setComponent", SetComponent(mut, i, c))

MutInsert(i, c) ==
    /\ mut # NoName
    /\ Size(mut) < MaxComps
    /\ MutReturn("insert", Insert(mut, i, c))

MutAppend(c) ==
    /\ mut # NoName
    /\ Size(mut) < MaxComps
    /\ MutReturn("append", AppendComponent(mut, c))

MutRemove(i) ==
    /\ mut # NoName
    /\ MutReturn("remove", Remove(mut, i))

\* clone(): the receiver stays, the call and the Name it returned are kept
\* in mlast. The StringName of b02 has no clone.
MutClone ==
    /\ mut # NoName /\ mut.variant # "B02StringName"
    /\ mut' = Clone(mut).self
    /\ mlast' = [op |-> "clone", outcome |-> Clone(mut).outcome,
                 made |-> Clone(mut).made]
    /\ ValUnchanged /\ EqUnchanged /\ TextUnchanged

MutConcat(other) ==
    /\ mut # NoName
    /\ other # NullName => Size(mut) + Len(other.components) <= MaxComps
    /\ MutReturn("concat", Concat(mut, other))

NextMut ==
    \/ \E v \in {"B04StringArrayName", "B03StringArrayName"},
          source \in ListInputs, d \in DelimInputs : MutNewArray(v, source, d)
    \/ \E v \in {"B03StringName", "B02StringName"},
          source \in FlatInputs, d \in DelimInputs : MutNewString(v, source, d)
    \/ \E source \in InitializeLists, d \in InitializeDelims :
          MutInitializeArray(source, d)
    \/ \E source \in InitializeStrings, d \in InitializeDelims :
          MutInitializeString(source, d)
    \/ MutDiscard
    \/ \E i \in IndexInputs, c \in CompInputs \cup {Null} : MutSetComponent(i, c)
    \/ \E i \in IndexInputs, c \in CompInputs \cup {Null} : MutInsert(i, c)
    \/ \E c \in CompInputs \cup {Null} : MutAppend(c)
    \/ \E i \in IndexInputs : MutRemove(i)
    \/ \E other \in ValidOthers \cup {NullName} : MutConcat(other)
    \/ MutClone

SpecMut == Init /\ [][NextMut]_vars

\* The calls on a Name after its construction without initialize: the
\* constructor, the four mutators, concat and clone.
NextCalls ==
    \/ \E v \in {"B04StringArrayName", "B03StringArrayName"},
          source \in ListInputs, d \in DelimInputs : MutNewArray(v, source, d)
    \/ \E v \in {"B03StringName", "B02StringName"},
          source \in FlatInputs, d \in DelimInputs : MutNewString(v, source, d)
    \/ MutDiscard
    \/ \E i \in IndexInputs, c \in CompInputs \cup {Null} : MutSetComponent(i, c)
    \/ \E i \in IndexInputs, c \in CompInputs \cup {Null} : MutInsert(i, c)
    \/ \E c \in CompInputs \cup {Null} : MutAppend(c)
    \/ \E i \in IndexInputs : MutRemove(i)
    \/ \E other \in ValidOthers \cup {NullName} : MutConcat(other)
    \/ MutClone

SpecCalls == Init /\ [][NextCalls]_vars

(***************************************************************************)
(* The value-type classes (homework b06): every transformation returns a   *)
(* new Name built by the constructor, the receiver is not touched.         *)
(***************************************************************************)
\* new StringArrayName(source, delimiter) of b06.
B06NewStringArrayName(source, delimiter) ==
    LET d == IF delimiter = Undef THEN <<DEFAULT_DELIMITER>> ELSE delimiter
    IN  IF ~ValidDelimiter(d) THEN Raise(NoName, IAE)
        ELSE IF IsNullOrUndefined(source) THEN Raise(NoName, IAE)
        ELSE IF ~(Len(source) > 0) THEN Raise(NoName, IAE)
        ELSE IF ~AllProperlyMasked(source, d[1]) THEN Raise(NoName, IAE)
        ELSE Done(ArrayName("B06StringArrayName", source, d[1]))

\* new StringName(source, delimiter) of b06: the empty string is accepted
\* and gives a Name of no components.
B06NewStringName(source, delimiter) ==
    LET d == IF delimiter = Undef THEN <<DEFAULT_DELIMITER>> ELSE delimiter
    IN  IF ~ValidDelimiter(d) THEN Raise(NoName, IAE)
        ELSE IF IsNullOrUndefined(source) THEN Raise(NoName, IAE)
        ELSE LET components == parseComponents(source, d[1])
             IN  IF ~(Len(components) > 0 \/ source = <<>>) THEN Raise(NoName, IAE)
                 ELSE IF ~AllProperlyMasked(components, d[1]) THEN Raise(NoName, IAE)
                 ELSE Done(StringName("B06StringName", source, d[1], Len(components)))

\* What a value-type method leaves behind: the receiver after the call, the
\* Name returned (NoName when the call raised) and how the call ended.
VDone(n, newName) == [self |-> n, ret |-> newName, outcome |-> OK_]
VRaise(n, kind) == [self |-> n, ret |-> NoName, outcome |-> kind]

\* The do-methods: the receiver after the call and what the constructor
\* call for the new Name gave.
\* A doSetComponent that writes into the receiver's own array before it
\* builds the new Name.
B06ArrDoSetComponent_InPlace(n, i, c) ==
    [self |-> [n EXCEPT !.components = ArraySet(n.components, i, c)],
     made |-> B06NewStringArrayName(ArraySet(n.components, i, c), <<n.delimiter>>)]

B06ArrDoSetComponent(n, i, c) ==
    [self |-> n,
     made |-> B06NewStringArrayName(ArraySet(n.components, i, c), <<n.delimiter>>)]

B06ArrDoInsert(n, i, c) ==
    [self |-> n,
     made |-> B06NewStringArrayName(SpliceInsert(n.components, i, c), <<n.delimiter>>)]

B06ArrDoAppend(n, c) ==
    [self |-> n,
     made |-> B06NewStringArrayName(Append(n.components, c), <<n.delimiter>>)]

B06ArrDoRemove(n, i) ==
    [self |-> n,
     made |-> B06NewStringArrayName(SpliceRemove(n.components, i), <<n.delimiter>>)]

B06StrDoSetComponent(n, i, c) ==
    LET components == ArraySet(parseComponents(n.name, n.delimiter), i, c)
    IN  [self |-> n,
         made |-> B06NewStringName(Join(components, n.delimiter), <<n.delimiter>>)]

B06StrDoInsert(n, i, c) ==
    LET components == SpliceInsert(parseComponents(n.name, n.delimiter), i, c)
    IN  [self |-> n,
         made |-> B06NewStringName(Join(components, n.delimiter), <<n.delimiter>>)]

B06StrDoAppend(n, c) ==
    LET newName == IF n.noComponents = 0 THEN c
                   ELSE n.name \o <<n.delimiter>> \o c
    IN  [self |-> n, made |-> B06NewStringName(newName, <<n.delimiter>>)]

B06StrDoRemove(n, i) ==
    LET components == SpliceRemove(parseComponents(n.name, n.delimiter), i)
    IN  [self |-> n,
         made |-> B06NewStringName(Join(components, n.delimiter), <<n.delimiter>>)]

B06DoClone(n) ==
    IF n.variant = "B06StringArrayName"
    THEN B06NewStringArrayName(n.components, <<n.delimiter>>)
    ELSE B06NewStringName(n.name, <<n.delimiter>>)

\* asString as it would be if it always joined with the Name's own delimiter.
B06AsString_OwnDelimiter(n, delimiter) ==
    LET d == IF delimiter = Undef THEN <<n.delimiter>> ELSE delimiter
    IN  IF ~ClassInvariantsHold(n) THEN [outcome |-> ISE, value |-> EMPTY]
        ELSE IF ~ValidDelimiter(d) THEN [outcome |-> IAE, value |-> EMPTY]
        ELSE [outcome |-> OK_,
              value |-> Join([i \in 1..GetNoComponents(n) |->
                                 doUnmask(DoGetComponent(n, i - 1))], n.delimiter)]

\* asString(delimiter): the outcome and the string returned.
B06AsString(n, delimiter) ==
    LET d == IF delimiter = Undef THEN <<n.delimiter>> ELSE delimiter
    IN  IF ~ClassInvariantsHold(n) THEN [outcome |-> ISE, value |-> EMPTY]
        ELSE IF ~ValidDelimiter(d) THEN [outcome |-> IAE, value |-> EMPTY]
        ELSE [outcome |-> OK_,
              value |-> Join([i \in 1..GetNoComponents(n) |->
                                 doUnmask(DoGetComponent(n, i - 1))], d[1])]

\* getComponent(i): the outcome and the value returned.
B06GetComponent(n, i) ==
    IF ~ClassInvariantsHold(n) THEN [outcome |-> ISE, value |-> Undef]
    ELSE IF ~IsValidIndex(GetNoComponents(n), i, FALSE)
         THEN [outcome |-> IAE, value |-> Undef]
    ELSE [outcome |-> OK_, value |-> DoGetComponent(n, i)]

\* An isEqual that does not look at the delimiters.
B06IsEqual_IgnoringDelimiter(n, other) ==
    IF ~ClassInvariantsHold(n) THEN [outcome |-> ISE, value |-> FALSE]
    ELSE IF other = NullName THEN [outcome |-> IAE, value |-> FALSE]
    ELSE IF GetNoComponents(n) # GetNoComponents(other)
         THEN [outcome |-> OK_, value |-> FALSE]
    ELSE [outcome |-> OK_,
          value |-> \A i \in 0..(GetNoComponents(n) - 1) :
                        DoGetComponent(n, i) = B06GetComponent(other, i).value]

\* An isEqual that gives up only when the receiver is the longer Name and
\* then compares the receiver's components.
B06IsEqual_OneSided(n, other) ==
    IF ~ClassInvariantsHold(n) THEN [outcome |-> ISE, value |-> FALSE]
    ELSE IF other = NullName THEN [outcome |-> IAE, value |-> FALSE]
    ELSE IF GetNoComponents(n) > GetNoComponents(other)
         THEN [outcome |-> OK_, value |-> FALSE]
    ELSE IF n.delimiter # other.delimiter THEN [outcome |-> OK_, value |-> FALSE]
    ELSE [outcome |-> OK_,
          value |-> \A i \in 0..(GetNoComponents(n) - 1) :
                        DoGetComponent(n, i) = B06GetComponent(other, i).value]

\* An isEqual that also wants both Names to be of the same class.
B06IsEqual_SameClassOnly(n, other) ==
    IF ~ClassInvariantsHold(n) THEN [outcome |-> ISE, value |-> FALSE]
    ELSE IF other = NullName THEN [outcome |-> IAE, value |-> FALSE]
    ELSE IF GetNoComponents(n) # GetNoComponents(other)
         THEN [outcome |-> OK_, value |-> FALSE]
    ELSE IF n.delimiter # other.delimiter THEN [outcome |-> OK_, value |-> FALSE]
    ELSE [outcome |-> OK_,
          value |-> /\ n.variant = other.variant
                    /\ \A i \in 0..(GetNoComponents(n) - 1) :
                           DoGetComponent(n, i) = B06GetComponent(other, i).value]

\* isEqual(other): the outcome and the value returned.
B06IsEqual(n, other) ==
    IF ~ClassInvariantsHold(n) THEN [outcome |-> ISE, value |-> FALSE]
    ELSE IF other = NullName THEN [outcome |-> IAE, value |-> FALSE]
    ELSE IF GetNoComponents(n) # GetNoComponents(other)
         THEN [outcome |-> OK_, value |-> FALSE]
    ELSE IF n.delimiter # other.delimiter THEN [outcome |-> OK_, value |-> FALSE]
    ELSE [outcome |-> OK_,
          value |-> \A i \in 0..(GetNoComponents(n) - 1) :
                        DoGetComponent(n, i) = B06GetComponent(other, i).value]

B06SetComponent(n, i, c) ==
    IF ~ClassInvariantsHold(n) THEN VRaise(n, ISE)
    ELSE IF ~IsValidIndex(GetNoComponents(n), i, FALSE) THEN VRaise(n, IAE)
    ELSE IF IsNullOrUndefined(c) THEN VRaise(n, IAE)
    ELSE IF ~ComponentProperlyMasked(c, n.delimiter) THEN VRaise(n, IAE)
    ELSE LET d == IF n.variant = "B06StringArrayName"
                  THEN B06ArrDoSetComponent(n, i, c)
                  ELSE B06StrDoSetComponent(n, i, c)
             newName == d.made.self
             got == B06GetComponent(newName, i)
         IN  IF d.made.outcome # OK_ THEN VRaise(d.self, d.made.outcome)
             ELSE IF ~ClassInvariantsHold(d.self) THEN VRaise(d.self, ISE)
             ELSE IF got.outcome # OK_ THEN VRaise(d.self, got.outcome)
             ELSE IF got.value # c THEN VRaise(d.self, MFE)
             ELSE IF GetNoComponents(newName) # GetNoComponents(d.self)
                  THEN VRaise(d.self, MFE)
             ELSE VDone(d.self, newName)

B06Insert(n, i, c) ==
    IF ~ClassInvariantsHold(n) THEN VRaise(n, ISE)
    ELSE IF ~IsValidIndex(GetNoComponents(n), i, TRUE) THEN VRaise(n, IAE)
    ELSE IF IsNullOrUndefined(c) THEN VRaise(n, IAE)
    ELSE IF ~ComponentProperlyMasked(c, n.delimiter) THEN VRaise(n, IAE)
    ELSE LET oldSize == GetNoComponents(n)
             d == IF n.variant = "B06StringArrayName"
                  THEN B06ArrDoInsert(n, i, c)
                  ELSE B06StrDoInsert(n, i, c)
             newName == d.made.self
             got == B06GetComponent(newName, i)
         IN  IF d.made.outcome # OK_ THEN VRaise(d.self, d.made.outcome)
             ELSE IF ~ClassInvariantsHold(d.self) THEN VRaise(d.self, ISE)
             ELSE IF GetNoComponents(newName) # oldSize + 1 THEN VRaise(d.self, MFE)
             ELSE IF got.outcome # OK_ THEN VRaise(d.self, got.outcome)
             ELSE IF got.value # c THEN VRaise(d.self, MFE)
             ELSE VDone(d.self, newName)

\* B06Append without the precondition on the masking of the component.
B06Append_MaskingUnchecked(n, c) ==
    IF ~ClassInvariantsHold(n) THEN VRaise(n, ISE)
    ELSE IF IsNullOrUndefined(c) THEN VRaise(n, IAE)
    ELSE LET oldSize == GetNoComponents(n)
             d == IF n.variant = "B06StringArrayName"
                  THEN B06ArrDoAppend(n, c)
                  ELSE B06StrDoAppend(n, c)
             newName == d.made.self
             got == B06GetComponent(newName, oldSize)
         IN  IF d.made.outcome # OK_ THEN VRaise(d.self, d.made.outcome)
             ELSE IF ~ClassInvariantsHold(d.self) THEN VRaise(d.self, ISE)
             ELSE IF GetNoComponents(newName) # oldSize + 1 THEN VRaise(d.self, MFE)
             ELSE IF got.outcome # OK_ THEN VRaise(d.self, got.outcome)
             ELSE IF got.value # c THEN VRaise(d.self, MFE)
             ELSE VDone(d.self, newName)

B06Append(n, c) ==
    IF ~ClassInvariantsHold(n) THEN VRaise(n, ISE)
    ELSE IF IsNullOrUndefined(c) THEN VRaise(n, IAE)
    ELSE IF ~ComponentProperlyMasked(c, n.delimiter) THEN VRaise(n, IAE)
    ELSE LET oldSize == GetNoComponents(n)
             d == IF n.variant = "B06StringArrayName"
                  THEN B06ArrDoAppend(n, c)
                  ELSE B06StrDoAppend(n, c)
             newName == d.made.self
             got == B06GetComponent(newName, oldSize)
         IN  IF d.made.outcome # OK_ THEN VRaise(d.self, d.made.outcome)
             ELSE IF ~ClassInvariantsHold(d.self) THEN VRaise(d.self, ISE)
             ELSE IF GetNoComponents(newName) # oldSize + 1 THEN VRaise(d.self, MFE)
             ELSE IF got.outcome # OK_ THEN VRaise(d.self, got.outcome)
             ELSE IF got.value # c THEN VRaise(d.self, MFE)
             ELSE VDone(d.self, newName)

B06Remove(n, i) ==
    IF ~ClassInvariantsHold(n) THEN VRaise(n, ISE)
    ELSE IF ~IsValidIndex(GetNoComponents(n), i, FALSE) THEN VRaise(n, IAE)
    ELSE LET oldSize == GetNoComponents(n)
             d == IF n.variant = "B06StringArrayName"
                  THEN B06ArrDoRemove(n, i)
                  ELSE B06StrDoRemove(n, i)
             newName == d.made.self
         IN  IF d.made.outcome # OK_ THEN VRaise(d.self, d.made.outcome)
             ELSE IF ~ClassInvariantsHold(d.self) THEN VRaise(d.self, ISE)
             ELSE IF GetNoComponents(newName) # oldSize - 1 THEN VRaise(d.self, MFE)
             ELSE VDone(d.self, newName)

B06Clone(n) ==
    LET cloned == B06DoClone(n)
    IN  IF cloned.outcome # OK_ THEN VRaise(n, cloned.outcome)
        ELSE IF ~ClassInvariantsHold(n) THEN VRaise(n, ISE)
        ELSE IF B06IsEqual(cloned.self, n).outcome # OK_
             THEN VRaise(n, B06IsEqual(cloned.self, n).outcome)
        ELSE IF ~B06IsEqual(cloned.self, n).value THEN VRaise(n, MFE)
        ELSE VDone(n, cloned.self)

\* The loop of concat: newName = newName.append(other.getComponent(i)); a
\* raising append ends the call.
RECURSIVE B06AppendEach(_, _)
B06AppendEach(newName, components) ==
    IF Len(components) = 0 THEN VDone(newName, newName)
    ELSE LET r == B06Append(newName, components[1])
         IN  IF r.outcome # OK_ THEN r
             ELSE B06AppendEach(r.ret, Tail(components))

B06Concat(n, other) ==
    IF ~ClassInvariantsHold(n) THEN VRaise(n, ISE)
    ELSE IF other = NullName THEN VRaise(n, IAE)
    ELSE IF Len(other.components) = 0 THEN B06Clone(n)
    ELSE LET oldSize == GetNoComponents(n)
             start == B06Clone(n)
             r == B06AppendEach(start.ret, other.components)
         IN  IF start.outcome # OK_ THEN start
             ELSE IF r.outcome # OK_ THEN VRaise(start.self, r.outcome)
             ELSE IF ~ClassInvariantsHold(start.self) THEN VRaise(start.self, ISE)
             ELSE IF GetNoComponents(r.ret) # oldSize + Len(other.components)
                  THEN VRaise(start.self, MFE)
             ELSE VDone(start.self, r.ret)

(***************************************************************************)
(* The value-type Names: the receiver recv, the Name the last call         *)
(* returned, ret, and the last call made, vlast.                           *)
(***************************************************************************)
NoArgs == [op |-> "none", outcome |-> OK_, i |-> -1, c |-> Null, other |-> NoName,
           source |-> Undef, d |-> Undef, value |-> EMPTY,
           variant |-> "none"]

MutUnchanged == UNCHANGED <<mut, mlast>>

ValReturn(op, i, c, r) ==
    /\ recv' = r.self
    /\ ret' = r.ret
    /\ vlast' = [NoArgs EXCEPT !.op = op, !.outcome = r.outcome, !.i = i, !.c = c]
    /\ MutUnchanged /\ EqUnchanged /\ TextUnchanged

ValNew(variant, source, delimiter) ==
    /\ recv = NoName
    /\ LET made == IF variant = "B06StringArrayName"
                   THEN B06NewStringArrayName(source, delimiter)
                   ELSE B06NewStringName(source, delimiter)
       IN  /\ recv' = made.self
           /\ ret' = NoName
           /\ vlast' = [NoArgs EXCEPT !.op = "new", !.outcome = made.outcome,
                                      !.source = source, !.d = delimiter,
                                      !.variant = variant]
    /\ MutUnchanged /\ EqUnchanged /\ TextUnchanged

\* The caller drops both Names.
ValDiscard ==
    /\ recv # NoName
    /\ recv' = NoName /\ ret' = NoName /\ vlast' = NoArgs
    /\ MutUnchanged /\ EqUnchanged /\ TextUnchanged

\* The caller is between two calls: the last result has been taken or dropped.
ValIdle == recv # NoName /\ ret = NoName /\ vlast.op \in {"none", "new"}

\* The caller goes on with the returned Name: n = n.append(c).
ValAdopt ==
    /\ ret # NoName
    /\ recv' = ret /\ ret' = NoName /\ vlast' = NoArgs
    /\ MutUnchanged /\ EqUnchanged /\ TextUnchanged

\* The caller goes on with the receiver and lets the result go.
ValKeep ==
    /\ recv # NoName
    /\ vlast.op \notin {"none", "new"}
    /\ recv' = recv /\ ret' = NoName /\ vlast' = NoArgs
    /\ MutUnchanged /\ EqUnchanged /\ TextUnchanged

ValSetComponent(i, c) ==
    /\ ValIdle
    /\ ValReturn("setComponent", i, c, B06SetComponent(recv, i, c))

ValInsert(i, c) ==
    /\ ValIdle
    /\ GetNoComponents(recv) < MaxComps
    /\ ValReturn("insert", i, c, B06Insert(recv, i, c))

ValAppend(c) ==
    /\ ValIdle
    /\ GetNoComponents(recv) < MaxComps
    /\ ValReturn("append", -1, c, B06Append(recv, c))

ValRemove(i) ==
    /\ ValIdle
    /\ ValReturn("remove", i, Null, B06Remove(recv, i))

\* getComponent returns a string, no Name: the caller keeps the receiver.
ValGetComponent(i) ==
    /\ ValIdle
    /\ recv' = recv /\ ret' = NoName
    /\ vlast' = [NoArgs EXCEPT !.op = "getComponent",
                               !.outcome = B06GetComponent(recv, i).outcome,
                               !.i = i]
    /\ MutUnchanged /\ EqUnchanged /\ TextUnchanged

\* isEqual(null): nothing is returned, the caller keeps the receiver.
ValIsEqualNull ==
    /\ ValIdle
    /\ recv' = recv /\ ret' = NoName
    /\ vlast' = [NoArgs EXCEPT !.op = "isEqual",
                               !.outcome = B06IsEqual(recv, NullName).outcome,
                               !.other = NullName]
    /\ MutUnchanged /\ EqUnchanged /\ TextUnchanged

\* asString(delimiter) returns a string, no Name: the caller keeps the
\* receiver. An undefined delimiter stands for the call without argument.
ValAsString(delimiter) ==
    /\ ValIdle
    /\ recv' = recv /\ ret' = NoName
    /\ vlast' = [NoArgs EXCEPT !.op = "asString",
                               !.outcome = B06AsString(recv, delimiter).outcome,
                               !.d = delimiter,
                               !.value = B06AsString(recv, delimiter).value]
    /\ MutUnchanged /\ EqUnchanged /\ TextUnchanged

ValConcat(other) ==
    /\ ValIdle
    /\ other # NullName => GetNoComponents(recv) + Len(other.components) <= MaxComps
    /\ recv' = B06Concat(recv, other).self
    /\ ret' = B06Concat(recv, other).ret
    /\ vlast' = [NoArgs EXCEPT !.op = "concat",
                               !.outcome = B06Concat(recv, other).outcome,
                               !.other = other]
    /\ MutUnchanged /\ EqUnchanged /\ TextUnchanged

ValClone ==
    /\ ValIdle
    /\ ValReturn("clone", -1, Null, B06Clone(recv))

NextVal ==
    \/ \E source \in ListInputs, d \in DelimInputs :
          ValNew("B06StringArrayName", source, d)
    \/ \E source \in FlatInputs, d \in DelimInputs :
          ValNew("B06StringName", source, d)
    \/ ValDiscard
    \/ ValAdopt
    \/ ValKeep
    \/ \E i \in IndexInputs, c \in CompInputs \cup {Null, Undef} : ValSetComponent(i, c)
    \/ \E i \in IndexInputs, c \in CompInputs \cup {Null, Undef} : ValInsert(i, c)
    \/ \E c \in CompInputs \cup {Null, Undef} : ValAppend(c)
    \/ \E i \in IndexInputs : ValRemove(i)
    \/ \E i \in IndexInputs : ValGetComponent(i)
    \/ ValIsEqualNull
    \/ \E d \in DelimInputs \cup {Null} : ValAsString(d)
    \/ \E other \in ValidOthers \cup {NullName} : ValConcat(other)
    \/ ValClone

SpecVal == Init /\ [][NextVal]_vars

(***************************************************************************)
(* The canonical string, equality and the hash code of the value-type      *)
(* classes.  Numbers are 32-bit two's complement, as hashCode |= 0 leaves  *)
(* them; the sums below never leave that range on the way.                 *)
(***************************************************************************)
MaxInt32 == 2147483647
MinInt32 == (-MaxInt32) - 1

\* a + b wrapped to 32 bits.
AddInt32(a, b) ==
    IF a >= 0 /\ b > MaxInt32 - a
    THEN ((a - 1073741824) - 1073741824) + ((b - 1073741824) - 1073741824)
    ELSE IF a < 0 /\ b < MinInt32 - a
    THEN ((a + 1073741824) + 1073741824) + ((b + 1073741824) + 1073741824)
    ELSE a + b

\* a - b wrapped to 32 bits.
SubInt32(a, b) ==
    IF b = MinInt32 THEN AddInt32(AddInt32(a, MaxInt32), 1)
    ELSE AddInt32(a, -b)

\* hashCode << 5: the low 27 bits move up, bit 26 becomes the sign.
ShiftLeft5(h) ==
    LET low == h % 67108864
        bit == (h \div 67108864) % 2
    IN  (low * 32) + (IF bit = 1 THEN MinInt32 ELSE 0)

\* asDataString(): the outcome and the string returned.
B06AsDataString(n) ==
    IF ~ClassInvariantsHold(n) THEN [outcome |-> ISE, value |-> EMPTY]
    ELSE IF n.delimiter = DEFAULT_DELIMITER
         THEN [outcome |-> OK_,
               value |-> Join([i \in 1..GetNoComponents(n) |-> DoGetComponent(n, i - 1)],
                              n.delimiter)]
    ELSE [outcome |-> OK_,
          value |-> Join([i \in 1..GetNoComponents(n) |->
                             doMask(doUnmask(DoGetComponent(n, i - 1)), DEFAULT_DELIMITER)],
                         DEFAULT_DELIMITER)]

\* A hash loop that shifts and adds the character code but does not take
\* hashCode away again: 32 * hashCode + c.
RECURSIVE HashFrom_ShiftOnly(_, _, _)
HashFrom_ShiftOnly(s, i, hashCode) ==
    IF i > Len(s) THEN hashCode
    ELSE HashFrom_ShiftOnly(s, i + 1, AddInt32(ShiftLeft5(hashCode), CharCode(s[i])))

RECURSIVE HashFrom(_, _, _)
HashFrom(s, i, hashCode) ==
    IF i > Len(s) THEN hashCode
    ELSE HashFrom(s, i + 1,
                  AddInt32(SubInt32(ShiftLeft5(hashCode), hashCode), CharCode(s[i])))

\* A getHashCode that hashes the flat string of a StringName as it is stored.
B06GetHashCode_OfStoredString(n) ==
    IF ~ClassInvariantsHold(n) THEN [outcome |-> ISE, value |-> 0]
    ELSE [outcome |-> B06AsDataString(n).outcome,
          value |-> HashFrom(IF n.variant = "B06StringName" THEN n.name
                             ELSE B06AsDataString(n).value, 1, 0)]

\* getHashCode(): the outcome and the number returned.
B06GetHashCode(n) ==
    IF ~ClassInvariantsHold(n) THEN [outcome |-> ISE, value |-> 0]
    ELSE [outcome |-> B06AsDataString(n).outcome,
          value |-> HashFrom(B06AsDataString(n).value, 1, 0)]

(***************************************************************************)
(* Two value-type Names side by side, na and nb, and what the caller saw   *)
(* when comparing them, cmp.                                               *)
(***************************************************************************)
\* Every Name the constructors of the two value-type classes give on the
\* inputs; each transformation returns such a Name.
EqNames ==
    { r.self : r \in { rr \in
          {B06NewStringArrayName(source, <<d>>) : source \in ListInputs, d \in {".", "#"}}
          \cup {B06NewStringName(source, <<d>>) : source \in FlatInputs, d \in {".", "#"}} :
          rr.outcome = OK_ } }

EqNewA(variant, source, delimiter) ==
    /\ na = NoName
    /\ na' = (IF variant = "B06StringArrayName"
              THEN B06NewStringArrayName(source, delimiter)
              ELSE B06NewStringName(source, delimiter)).self
    /\ cmp' = NoCall
    /\ UNCHANGED nb
    /\ MutUnchanged /\ ValUnchanged /\ TextUnchanged

EqNewB(variant, source, delimiter) ==
    /\ nb = NoName
    /\ nb' = (IF variant = "B06StringArrayName"
              THEN B06NewStringArrayName(source, delimiter)
              ELSE B06NewStringName(source, delimiter)).self
    /\ cmp' = NoCall
    /\ UNCHANGED na
    /\ MutUnchanged /\ ValUnchanged /\ TextUnchanged

EqDiscardA ==
    /\ na # NoName
    /\ na' = NoName /\ cmp' = NoCall
    /\ UNCHANGED nb
    /\ MutUnchanged /\ ValUnchanged /\ TextUnchanged

EqDiscardB ==
    /\ nb # NoName
    /\ nb' = NoName /\ cmp' = NoCall
    /\ UNCHANGED na
    /\ MutUnchanged /\ ValUnchanged /\ TextUnchanged

\* The caller asks both Names for equality in both directions, for their
\* hash codes and for their canonical strings.
EqCompare ==
    /\ na # NoName /\ nb # NoName
    /\ cmp' = [op |-> "compare",
               outcome |-> IF \A o \in {B06IsEqual(na, na).outcome, B06IsEqual(na, nb).outcome,
                                        B06IsEqual(nb, na).outcome, B06GetHashCode(na).outcome,
                                        B06GetHashCode(nb).outcome} : o = OK_
                           THEN OK_ ELSE ISE,
               aa |-> B06IsEqual(na, na).value,
               ab |-> B06IsEqual(na, nb).value,
               ba |-> B06IsEqual(nb, na).value,
               ha |-> B06GetHashCode(na).value,
               hb |-> B06GetHashCode(nb).value,
               da |-> B06AsDataString(na).value,
               db |-> B06AsDataString(nb).value]
    /\ UNCHANGED <<na, nb>>
    /\ MutUnchanged /\ ValUnchanged /\ TextUnchanged

\* The caller passes null (or undefined) to isEqual.
EqCompareNull ==
    /\ na # NoName
    /\ cmp' = [op |-> "isEqualNull", outcome |-> B06IsEqual(na, NullName).outcome]
    /\ UNCHANGED <<na, nb>>
    /\ MutUnchanged /\ ValUnchanged /\ TextUnchanged

NextEq ==
    \/ \E source \in ListInputs, d \in DelimInputs :
          EqNewA("B06StringArrayName", source, d)
    \/ \E source \in FlatInputs, d \in DelimInputs :
          EqNewA("B06StringName", source, d)
    \/ \E source \in ListInputs, d \in DelimInputs :
          EqNewB("B06StringArrayName", source, d)
    \/ \E source \in FlatInputs, d \in DelimInputs :
          EqNewB("B06StringName", source, d)
    \/ EqDiscardA
    \/ EqDiscardB
    \/ EqCompare
    \/ EqCompareNull

SpecEq == Init /\ [][NextEq]_vars

(***************************************************************************)
(* The two storages side by side: a StringName na and a StringArrayName nb *)
(* built from the same components and driven by the same calls; cmp holds  *)
(* the last call and how it ended for each of them.                        *)
(***************************************************************************)
\* isEmpty(): the outcome and the value returned.
B06IsEmpty(n) ==
    IF ~ClassInvariantsHold(n) THEN [outcome |-> ISE, value |-> FALSE]
    ELSE [outcome |-> OK_, value |-> GetNoComponents(n) = 0]

\* The non-empty lists of components that are properly masked under d.
MaskedLists(d) ==
    { cs \in ListInputs : Len(cs) > 0 /\ AllProperlyMasked(cs, d) }

\* What a caller can observe of a Name.
Observed(n) ==
    [count |-> GetNoComponents(n),
     components |-> [i \in 1..GetNoComponents(n) |-> B06GetComponent(n, i - 1)],
     asString |-> B06AsString(n, <<n.delimiter>>),
     asDataString |-> B06AsDataString(n),
     isEmpty |-> B06IsEmpty(n),
     hash |-> B06GetHashCode(n)]

\* What the caller sees when it compares the two Names after a call that
\* ended with outcomes oa and ob.
Alike(a, b, oa, ob) ==
    /\ oa = ob
    /\ Observed(a) = Observed(b)

\* The caller drives the two Names on as long as it has seen no difference
\* between them.
PairAlike == na # NoName /\ nb # NoName /\ cmp.alike

\* The Name the caller holds after a call: the returned one, or the
\* receiver when the call raised.
Held(r) == IF r.outcome = OK_ THEN r.ret ELSE r.self

PairStep(op, ra, rb) ==
    /\ na' = Held(ra)
    /\ nb' = Held(rb)
    /\ cmp' = [op |-> op, oa |-> ra.outcome, ob |-> rb.outcome,
               alike |-> Alike(na', nb', ra.outcome, rb.outcome)]
    /\ MutUnchanged /\ ValUnchanged /\ TextUnchanged

PairNew(cs, d) ==
    /\ na = NoName /\ nb = NoName
    /\ LET a == B06NewStringName(Join(cs, d), <<d>>)
           b == B06NewStringArrayName(cs, <<d>>)
       IN  /\ na' = a.self
           /\ nb' = b.self
           /\ cmp' = [op |-> "new", oa |-> a.outcome, ob |-> b.outcome,
                      alike |-> Alike(na', nb', a.outcome, b.outcome)]
    /\ MutUnchanged /\ ValUnchanged /\ TextUnchanged

PairDiscard ==
    /\ na # NoName
    /\ na' = NoName /\ nb' = NoName
    /\ cmp' = [op |-> "none", oa |-> OK_, ob |-> OK_, alike |-> TRUE]
    /\ MutUnchanged /\ ValUnchanged /\ TextUnchanged

PairSetComponent(i, c) ==
    /\ PairAlike
    /\ PairStep("setComponent", B06SetComponent(na, i, c), B06SetComponent(nb, i, c))

PairInsert(i, c) ==
    /\ PairAlike
    /\ GetNoComponents(na) < MaxComps /\ GetNoComponents(nb) < MaxComps
    /\ PairStep("insert", B06Insert(na, i, c), B06Insert(nb, i, c))

PairAppend(c) ==
    /\ PairAlike
    /\ GetNoComponents(na) < MaxComps /\ GetNoComponents(nb) < MaxComps
    /\ PairStep("append", B06Append(na, c), B06Append(nb, c))

PairRemove(i) ==
    /\ PairAlike
    /\ PairStep("remove", B06Remove(na, i), B06Remove(nb, i))

PairConcat(other) ==
    /\ PairAlike
    /\ other # NullName =>
          /\ GetNoComponents(na) + Len(other.components) <= MaxComps
          /\ GetNoComponents(nb) + Len(other.components) <= MaxComps
    /\ PairStep("concat", B06Concat(na, other), B06Concat(nb, other))

PairClone ==
    /\ PairAlike
    /\ PairStep("clone", B06Clone(na), B06Clone(nb))

NextPair ==
    \/ \E d \in {".", "#"} : \E cs \in MaskedLists(d) : PairNew(cs, d)
    \/ PairDiscard
    \/ \E i \in IndexInputs, c \in CompInputs \cup {Null} : PairSetComponent(i, c)
    \/ \E i \in IndexInputs, c \in CompInputs \cup {Null} : PairInsert(i, c)
    \/ \E c \in CompInputs \cup {Null} : PairAppend(c)
    \/ \E i \in IndexInputs : PairRemove(i)
    \/ \E other \in ValidOthers \cup {NullName} : PairConcat(other)
    \/ PairClone

SpecPair == Init /\ [][NextPair]_vars

(***************************************************************************)
(* The masking world: a caller holds one string and a delimiter, applies   *)
(* doMask and doUnmask to it, and asks the component validation and the    *)
(* tokenizer about it. These are the same code in every assignment         *)
(* (b01 Name, b02 StringName, b03/b04/b06 AbstractName and StringName).    *)
(***************************************************************************)
Chars == {ESCAPE_CHARACTER, ".", "#", "a"}
Texts == SeqsUpTo(Chars, MaxText)
TextDelims == {".", "#"}

TextGive(s, d) ==
    /\ ~txt.given
    /\ txt' = [given |-> TRUE, s0 |-> s, s |-> s, d |-> d, ops |-> <<>>]
    /\ tres' = NoResult
    /\ MutUnchanged /\ ValUnchanged /\ EqUnchanged

TextDrop ==
    /\ txt.given
    /\ txt' = NoText
    /\ tres' = NoResult
    /\ MutUnchanged /\ ValUnchanged /\ EqUnchanged

TextConvert(op, s) ==
    /\ txt.given /\ Len(txt.ops) < 2
    /\ txt' = [txt EXCEPT !.s = s, !.ops = Append(@, op)]
    /\ tres' = NoResult
    /\ MutUnchanged /\ ValUnchanged /\ EqUnchanged

TextMask == TextConvert("mask", doMask(txt.s, txt.d))

TextUnmask == TextConvert("unmask", doUnmask(txt.s))

TextAsk(op, value) ==
    /\ txt.given
    /\ tres' = [op |-> op, value |-> value]
    /\ UNCHANGED txt
    /\ MutUnchanged /\ ValUnchanged /\ EqUnchanged

TextValidate == TextAsk("validate", MaskScan(txt.s, txt.d, 1))

TextParse == TextAsk("parse", parseComponents(txt.s, txt.d))

\* new StringName(s, d) in the value-type class (b06) and in the mutable
\* ones (b03, b02): how each constructor call ends.
TextNewStringName ==
    TextAsk("new", [b06 |-> B06NewStringName(txt.s, <<txt.d>>).outcome,
                    b03 |-> B03NewStringName(txt.s, <<txt.d>>).outcome,
                    b02 |-> B02NewStringName(txt.s, <<txt.d>>).outcome])

NextText ==
    \/ \E s \in Texts : \E d \in TextDelims : TextGive(s, d)
    \/ TextDrop
    \/ TextMask
    \/ TextUnmask
    \/ TextValidate
    \/ TextParse
    \/ TextNewStringName

SpecText == Init /\ [][NextText]_vars

(***************************************************************************)
(* The loop of concat in the mutable classes, one iteration per step:      *)
(*   for (i = 0; i < other.getNoComponents(); i++)                         *)
(*       this.doAppend(other.getComponent(i))                              *)
(* While the call runs, mlast holds whether other is the receiver itself   *)
(* (alias), the components of other when it is another Name, the loop      *)
(* index i and the count at entry. When other is the receiver, its count   *)
(* and its components are read from the receiver as it is at that          *)
(* iteration. A Name is followed up to MaxLoop components.                 *)
(***************************************************************************)
MaxLoop == 6

Running == mlast.op = "concat" /\ mlast.outcome = "running"

\* other.getNoComponents() and other.getComponent(i) as the loop reads them.
OtherCount == IF mlast.alias THEN GetNoComponents(mut) ELSE Len(mlast.other)
OtherComponent ==
    IF mlast.alias THEN DoGetComponent(mut, mlast.i) ELSE mlast.other[mlast.i + 1]

\* The entry of concat(other): the invariants and the precondition (b04),
\* the null test, and the early return for an empty other. isEmpty is
\* whether other.isEmpty() holds.
LoopEnter(other, alias, isEmpty) ==
    /\ mut # NoName /\ ~Running
    /\ mut' = mut
    /\ mlast' =
         IF mut.variant = "B04StringArrayName" /\ ~ClassInvariantsHold(mut)
         THEN [op |-> "concat", outcome |-> ISE]
         ELSE IF other = NullName
         THEN [op |-> "concat",
               outcome |-> CASE mut.variant = "B04StringArrayName" -> IAE
                             [] mut.variant = "B02StringName" -> "TypeError"
                             [] OTHER -> ERR]
         ELSE IF isEmpty
         THEN [op |-> "concat", outcome |-> OK_]
         ELSE [op |-> "concat", outcome |-> "running", alias |-> alias,
               other |-> IF alias THEN <<>> ELSE other.components, i |-> 0,
               oldSize |-> GetNoComponents(mut)]
    /\ ValUnchanged /\ EqUnchanged /\ TextUnchanged

\* concat(other) with another Name, or with null.
LoopConcatOther(other) ==
    /\ mut # NoName
    /\ other # NullName => Size(mut) + Len(other.components) <= MaxComps
    /\ LoopEnter(other, FALSE, other # NullName /\ Len(other.components) = 0)

\* self.concat(self): isEmpty of b02 tests the stored string, that of the
\* other classes the count.
LoopConcatSelf ==
    /\ mut # NoName
    /\ LoopEnter(mut, TRUE,
                 IF mut.variant = "B02StringName" THEN Len(mut.name) = 0
                 ELSE GetNoComponents(mut) = 0)

\* One iteration: i < other.getNoComponents() holds, the component at i is
\* read (getComponent of b04 asserts the invariants of other), appended
\* (through the checked append in b02) and i is incremented.
LoopIterate ==
    /\ Running /\ mlast.i < OtherCount
    /\ mlast.alias => GetNoComponents(mut) < MaxLoop
    /\ LET r == IF mut.variant = "B04StringArrayName" /\ mlast.alias
                   /\ ~ClassInvariantsHold(mut)
                THEN Raise(mut, ISE)
                ELSE IF mut.variant = "B02StringName" THEN B02Append(mut, OtherComponent)
                ELSE Done(DoAppend(mut, OtherComponent))
       IN  /\ mut' = r.self
           /\ mlast' = IF r.outcome # OK_ THEN [op |-> "concat", outcome |-> r.outcome]
                       ELSE [mlast EXCEPT !.i = @ + 1]
    /\ ValUnchanged /\ EqUnchanged /\ TextUnchanged

\* The loop condition fails: the invariants and the postcondition of b04,
\* and the return.
LoopReturn ==
    /\ Running /\ ~(mlast.i < OtherCount)
    /\ mut' = mut
    /\ mlast' = [op |-> "concat",
                 outcome |->
                   IF mut.variant # "B04StringArrayName" THEN OK_
                   ELSE IF ~ClassInvariantsHold(mut) THEN ISE
                   ELSE IF GetNoComponents(mut) # mlast.oldSize + OtherCount THEN MFE
                   ELSE OK_]
    /\ ValUnchanged /\ EqUnchanged /\ TextUnchanged

\* The caller drops the Name between two calls.
LoopDiscard ==
    /\ ~Running
    /\ MutDiscard

\* initialize(source, delimiter) between two calls.
LoopInitializeArray(source, delimiter) ==
    /\ ~Running
    /\ MutInitializeArray(source, delimiter)

LoopInitializeString(source, delimiter) ==
    /\ ~Running
    /\ MutInitializeString(source, delimiter)

NextLoop ==
    \/ \E v \in {"B04StringArrayName", "B03StringArrayName"},
          source \in ListInputs, d \in DelimInputs : MutNewArray(v, source, d)
    \/ \E v \in {"B03StringName", "B02StringName"},
          source \in FlatInputs, d \in DelimInputs : MutNewString(v, source, d)
    \/ \E source \in InitializeLists, d \in InitializeDelims :
          LoopInitializeArray(source, d)
    \/ \E source \in InitializeStrings, d \in InitializeDelims :
          LoopInitializeString(source, d)
    \/ LoopDiscard
    \/ \E other \in ValidOthers \cup {NullName} : LoopConcatOther(other)
    \/ LoopConcatSelf
    \/ LoopIterate
    \/ LoopReturn

\* A call that has been entered runs on: the loop takes its next iteration
\* and returns when its condition fails.
SpecLoop ==
    Init /\ [][NextLoop]_vars /\ WF_vars(LoopIterate) /\ WF_vars(LoopReturn)

(***************************************************************************)
(* Claims about the mutable Names (SpecMut).                               *)
(***************************************************************************)
MutOps == {"setComponent", "insert", "append", "remove"}

\* C1: in every state reached by public calls on a mutable Name, returned
\* or raised, the delimiter is one character other than the escape
\* character and every stored component is properly masked under it.
C1_StoredComponentsMasked ==
    mut # NoName =>
        /\ mut.delimiter # ESCAPE_CHARACTER
        /\ \A k \in 1..Len(StoredComponents(mut)) :
               /\ ~IsNullOrUndefined(StoredComponents(mut)[k])
               /\ ComponentProperlyMasked(StoredComponents(mut)[k], mut.delimiter)

\* C2: a concat that raises leaves the receiver's delimiter and components
\* exactly as they were before the call.
C2_FailedConcatChangesNothing ==
    [][(mlast'.op = "concat" /\ mlast'.outcome # OK_) => mut' = mut]_vars

\* C3: in the contract-checked mutable class, a setComponent, insert,
\* append or remove that raises leaves the receiver exactly as it was.
C3_FailedMutatorChangesNothing ==
    [][(/\ mut.variant = "B04StringArrayName"
        /\ mlast'.op \in MutOps
        /\ mlast'.outcome # OK_) => mut' = mut]_vars

\* C3 witness: an insert on a contract-checked Name of two components has
\* raised a precondition failure.
C3_Witness ==
    /\ mut.variant = "B04StringArrayName"
    /\ Len(mut.components) = 2
    /\ mlast = [op |-> "insert", outcome |-> IAE]

(***************************************************************************)
(* Claims about the value-type Names (SpecVal).                            *)
(***************************************************************************)
ValOps == {"setComponent", "insert", "append", "remove", "concat", "clone"}

\* C4: in the value-type classes, of either storage, every call of
\* setComponent, insert, append, remove, concat or clone, returning or
\* raising, leaves the receiver's delimiter, component count and components
\* as they were; a Name that was returned is the receiver of later calls
\* (ValAdopt), which leave it alone in the same way.
C4_ReceiverUntouched ==
    [][vlast'.op \in ValOps =>
          /\ recv' = recv
          /\ recv'.delimiter = recv.delimiter
          /\ GetNoComponents(recv') = GetNoComponents(recv)
          /\ StoredComponents(recv') = StoredComponents(recv)]_vars

\* C4 witness: setComponent on a two-component StringArrayName has returned
\* a Name whose components differ from the receiver's.
C4_Witness ==
    /\ recv # NoName /\ ret # NoName
    /\ recv.variant = "B06StringArrayName"
    /\ vlast.op = "setComponent" /\ vlast.outcome = OK_
    /\ GetNoComponents(recv) = 2
    /\ StoredComponents(ret) # StoredComponents(recv)

(***************************************************************************)
(* Claims about the canonical string, equality and hash (SpecEq).          *)
(***************************************************************************)
\* Every component of n is the encoding of its decoded text: only the
\* delimiter and the escape character are escaped.
CanonicallyMasked(n) ==
    \A k \in 1..GetNoComponents(n) :
        doMask(doUnmask(DoGetComponent(n, k - 1)), n.delimiter) = DoGetComponent(n, k - 1)

\* C5: tokenizing n.asDataString() with the default delimiter gives as many
\* components as n has and, at every index, a component with the decoded
\* text of n's component.
C5_DataStringRoundTrip ==
    cmp.op = "compare" =>
        LET tokens == parseComponents(cmp.da, DEFAULT_DELIMITER)
        IN  /\ Len(tokens) = GetNoComponents(na)
            /\ \A k \in 1..Len(tokens) :
                   k <= GetNoComponents(na) =>
                       doUnmask(tokens[k]) = doUnmask(DoGetComponent(na, k - 1))

\* C6 as stated: equal canonical strings make two Names equal, whatever
\* their delimiters and storage.
C6_EqualDataStringsAreEqual ==
    (cmp.op = "compare" /\ cmp.da = cmp.db) => cmp.ab

\* C6 amended: two Names with the same delimiter, the same component count
\* and canonically masked components are equal whenever their canonical
\* strings are equal, whatever their storage.
C6_EqualDataStringsSameDelimiter ==
    (/\ cmp.op = "compare"
     /\ cmp.da = cmp.db
     /\ na.delimiter = nb.delimiter
     /\ GetNoComponents(na) = GetNoComponents(nb)
     /\ CanonicallyMasked(na) /\ CanonicallyMasked(nb)) => cmp.ab

\* C6 witness: a StringName and a StringArrayName under '#', two components
\* each, with equal canonical strings, were compared and found equal.
C6_Witness ==
    /\ cmp.op = "compare" /\ cmp.ab
    /\ na.variant = "B06StringName" /\ nb.variant = "B06StringArrayName"
    /\ na.delimiter = "#" /\ nb.delimiter = "#"
    /\ GetNoComponents(na) = 2
    /\ cmp.da = cmp.db /\ cmp.da # na.name

\* C7: a.isEqual(b) is true exactly when a and b have the same delimiter,
\* the same component count and the same encoded component at every index;
\* isEqual(null) raises IllegalArgumentException.
C7_IsEqualIffSameDelimiterAndComponents ==
    /\ cmp.op = "compare" =>
          /\ cmp.outcome = OK_
          /\ cmp.ab <=> (/\ na.delimiter = nb.delimiter
                         /\ GetNoComponents(na) = GetNoComponents(nb)
                         /\ StoredComponents(na) = StoredComponents(nb))
    /\ cmp.op = "isEqualNull" => cmp.outcome = IAE

\* C7 witness: two Names with the same two components but different
\* delimiters were compared and found different.
C7_Witness ==
    /\ cmp.op = "compare" /\ ~cmp.ab
    /\ na.delimiter # nb.delimiter
    /\ GetNoComponents(na) = 2
    /\ StoredComponents(na) = StoredComponents(nb)

\* C8: Names that are equal have the same hash code, also a StringName and
\* a StringArrayName.
C8_EqualNamesHashAlike ==
    (cmp.op = "compare" /\ cmp.ab) => cmp.ha = cmp.hb

\* C8 witness: a StringName and a StringArrayName under '#' were found
\* equal; their canonical string has seven characters, so the hash code was
\* cut to 32 bits on the way.
C8_Witness ==
    /\ cmp.op = "compare" /\ cmp.ab
    /\ na.variant = "B06StringName" /\ nb.variant = "B06StringArrayName"
    /\ na.delimiter = "#"
    /\ Len(cmp.da) = 7
    /\ cmp.ha = cmp.hb /\ cmp.ha # 0

\* C9: isEqual is reflexive, symmetric and transitive over the Names of
\* both storages.
C9_IsEqualIsEquivalence ==
    cmp.op = "compare" =>
        /\ cmp.aa
        /\ cmp.ab = cmp.ba
        /\ \A nc \in EqNames :
              (cmp.ab /\ B06IsEqual(nb, nc).value) => B06IsEqual(na, nc).value

\* C9 witness: a StringArrayName and a longer StringName that starts with
\* the same component were compared, in both directions, and found different.
C9_Witness ==
    /\ cmp.op = "compare" /\ ~cmp.ab /\ ~cmp.ba
    /\ na.variant = "B06StringArrayName" /\ nb.variant = "B06StringName"
    /\ na.delimiter = nb.delimiter
    /\ GetNoComponents(na) = 1 /\ GetNoComponents(nb) = 2
    /\ DoGetComponent(na, 0) = DoGetComponent(nb, 0)

\* C10: for a value-type Name n, an index i in [0, n.length] and a properly
\* masked component c, n.insert(i, c) and n.append(c) return normally a
\* Name with c at index i (for append at index n.length) and n's components
\* in their order around it.
C10_InsertAppendLaw ==
    (/\ vlast.op \in {"insert", "append"}
     /\ ~IsNullOrUndefined(vlast.c)
     /\ ComponentProperlyMasked(vlast.c, recv.delimiter)
     /\ vlast.op = "insert" => IsValidIndex(GetNoComponents(recv), vlast.i, TRUE))
    => /\ vlast.outcome = OK_
       /\ StoredComponents(ret) =
             SpliceInsert(StoredComponents(recv),
                          IF vlast.op = "insert" THEN vlast.i ELSE GetNoComponents(recv),
                          vlast.c)

\* C11: for a non-empty value-type Name n and an index i in
\* [0, n.length - 1], n.remove(i) returns normally a Name whose components
\* are n's components without the one at i, in their order.
C11_RemoveLaw ==
    (/\ vlast.op = "remove"
     /\ IsValidIndex(GetNoComponents(recv), vlast.i, FALSE))
    => /\ vlast.outcome = OK_
       /\ StoredComponents(ret) = SpliceRemove(StoredComponents(recv), vlast.i)
       /\ GetNoComponents(ret) = GetNoComponents(recv) - 1

\* C12: for a value-type Name n, an index i in [0, n.length - 1] and a
\* properly masked component c, n.setComponent(i, c) returns normally a
\* Name with c at index i, as many components as n and n's other components.
C12_SetComponentLaw ==
    (/\ vlast.op = "setComponent"
     /\ IsValidIndex(GetNoComponents(recv), vlast.i, FALSE)
     /\ ~IsNullOrUndefined(vlast.c)
     /\ ComponentProperlyMasked(vlast.c, recv.delimiter))
    => /\ vlast.outcome = OK_
       /\ GetNoComponents(ret) = GetNoComponents(recv)
       /\ StoredComponents(ret) =
             [StoredComponents(recv) EXCEPT ![vlast.i + 1] = vlast.c]

\* C13: for value-type Names self and other, of any delimiters,
\* self.concat(other) returns normally a Name under self's delimiter whose
\* components are self's followed by other's; with an empty other the
\* result has self's components.
C13_ConcatLaw ==
    (vlast.op = "concat" /\ vlast.other # NullName)
    => /\ vlast.outcome = OK_
       /\ ret.delimiter = recv.delimiter
       /\ StoredComponents(ret) = StoredComponents(recv) \o vlast.other.components
       /\ GetNoComponents(ret) = GetNoComponents(recv) + Len(vlast.other.components)

(***************************************************************************)
(* Claims about the two storages side by side (SpecPair).                  *)
(***************************************************************************)
\* C14: a StringName and a StringArrayName built from the same non-empty
\* list of properly masked components and driven by the same calls end
\* every call alike (both return, or both raise the same kind of failure)
\* and agree on count, every component, asString, asDataString, isEmpty
\* and hash code.
C14_StoragesAgree ==
    (na # NoName /\ nb # NoName) =>
        /\ cmp.oa = cmp.ob
        /\ cmp.alike
        /\ Observed(na) = Observed(nb)


(***************************************************************************)
(* Claims about masking, validation and the tokenizer (SpecText).          *)
(***************************************************************************)
\* The escape characters that stand directly before position i of s.
EscapesBefore(s, i) ==
    CHOOSE k \in 0..(i - 1) :
        /\ \A j \in (i - k)..(i - 1) : s[j] = ESCAPE_CHARACTER
        /\ (k = i - 1 \/ s[i - k - 1] # ESCAPE_CHARACTER)

\* Position i is the second character of an escape pair.
Escaped(s, i) == EscapesBefore(s, i) % 2 = 1

\* An escape character is left over at the end of s.
LoneEscapeAtEnd(s) == EscapesBefore(s, Len(s) + 1) % 2 = 1

\* s is what doMask writes: escape pairs only for the delimiter and the
\* escape character, nothing else escaped.
OnlySpecialsEscaped(s, d) ==
    /\ ~LoneEscapeAtEnd(s)
    /\ \A i \in 1..Len(s) :
        /\ (s[i] = d => Escaped(s, i))
        /\ (Escaped(s, i) => s[i] \in {d, ESCAPE_CHARACTER})

\* C15 as stated: for every component c the validation accepts under d,
\* doMask(doUnmask(c), d) = c.
C15_RemaskRestores ==
    (txt.ops = <<"unmask", "mask">> /\ ComponentProperlyMasked(txt.s0, txt.d))
        => txt.s = txt.s0

\* C15 amended: for every component c in which only the delimiter and the
\* escape character are escaped, doMask(doUnmask(c), d) = c.
C15_RemaskRestoresCanonical ==
    (txt.ops = <<"unmask", "mask">> /\ OnlySpecialsEscaped(txt.s0, txt.d))
        => txt.s = txt.s0

\* C15 witness: a component with an escaped delimiter and an escaped escape
\* character has been decoded and encoded again.
C15_Witness ==
    /\ txt.ops = <<"unmask", "mask">>
    /\ OnlySpecialsEscaped(txt.s0, txt.d)
    /\ \E i, j \in 1..Len(txt.s0) :
        /\ Escaped(txt.s0, i) /\ txt.s0[i] = txt.d
        /\ Escaped(txt.s0, j) /\ txt.s0[j] = ESCAPE_CHARACTER
    /\ txt.s = txt.s0

\* C16: for every raw string s and delimiter d, doMask(s, d) passes the
\* component validation under d and is at least as long as s, and
\* doUnmask(doMask(s, d)) = s.
C16_UnmaskUndoesMask ==
    /\ (txt.ops = <<"mask">>
            => /\ ComponentProperlyMasked(txt.s, txt.d)
               /\ Len(txt.s) >= Len(txt.s0))
    /\ (txt.ops = <<"mask", "unmask">> => txt.s = txt.s0)

\* C16 witness: a raw string that holds the delimiter and ends in an escape
\* character has been encoded and decoded again.
C16_Witness ==
    /\ txt.ops = <<"mask", "unmask">>
    /\ Len(txt.s0) >= 2
    /\ \E i \in 1..Len(txt.s0) : txt.s0[i] = txt.d
    /\ txt.s0[Len(txt.s0)] = ESCAPE_CHARACTER
    /\ txt.s = txt.s0

\* C17: the component validation accepts a string under delimiter d exactly
\* when no escape character is left unpaired at its end and every d in it is
\* the second character of an escape pair; what an escape character is
\* followed by does not matter, and '.' is ordinary under another delimiter.
C17_ValidationAcceptsExactly ==
    tres.op = "validate"
        => (tres.value = "ok"
                <=> /\ ~LoneEscapeAtEnd(txt.s)
                    /\ \A i \in 1..Len(txt.s) :
                           txt.s[i] = txt.d => Escaped(txt.s, i))

\* C17 witness: under '#', a string with a bare '.' and an escaped ordinary
\* character has been validated and accepted.
C17_Witness ==
    /\ tres.op = "validate" /\ tres.value = "ok"
    /\ txt.d = "#"
    /\ \E i, j \in 1..Len(txt.s) :
        /\ txt.s[i] = DEFAULT_DELIMITER /\ ~Escaped(txt.s, i)
        /\ txt.s[j] = "a" /\ Escaped(txt.s, j)

\* The positions of s where delimiter d stands outside an escape pair.
BareDelimiters(s, d) == { i \in 1..Len(s) : s[i] = d /\ ~Escaped(s, i) }

\* C18: the tokenizer gives no component for the empty string and, for a
\* non-empty string s, one component more than s has delimiters outside
\* escape pairs; a delimiter at the end gives an empty last component; the
\* components keep their escape characters, so joining them with d gives s.
C18_Tokenizer ==
    tres.op = "parse"
        => /\ (txt.s = EMPTY => tres.value = <<>>)
           /\ (txt.s # EMPTY
                   => Len(tres.value) = Cardinality(BareDelimiters(txt.s, txt.d)) + 1)
           /\ (Len(txt.s) \in BareDelimiters(txt.s, txt.d)
                   => tres.value[Len(tres.value)] = EMPTY)
           /\ Join(tres.value, txt.d) = txt.s

\* C18 witness: a string with an escaped delimiter and a bare delimiter at
\* its end has been tokenized into two components, the first one keeping
\* its escape character and the last one empty.
C18_Witness ==
    /\ tres.op = "parse"
    /\ \E i \in 1..Len(txt.s) : txt.s[i] = txt.d /\ Escaped(txt.s, i)
    /\ Len(txt.s) \in BareDelimiters(txt.s, txt.d)
    /\ Len(tres.value) = 2
    /\ tres.value[1] = SubSeq(txt.s, 1, Len(txt.s) - 1)
    /\ tres.value[2] = EMPTY

\* C29: new StringName(s, d) on a non-empty string s and a valid delimiter
\* d is rejected exactly when s ends with an escape character that is not
\* the second one of an escape pair; the tokenizer gives no component with a
\* delimiter outside an escape pair, and a delimiter inside an escape pair
\* stays within its component.
C29_StringNameRejectsLoneEscape ==
    /\ (tres.op = "new" /\ txt.s # EMPTY)
           => /\ tres.value.b06 = (IF LoneEscapeAtEnd(txt.s) THEN IAE ELSE OK_)
              /\ tres.value.b03 = (IF LoneEscapeAtEnd(txt.s) THEN ERR ELSE OK_)
              /\ tres.value.b02 = (IF LoneEscapeAtEnd(txt.s) THEN ERR ELSE OK_)
    /\ tres.op = "parse"
           => /\ \A k \in 1..Len(tres.value) : BareDelimiters(tres.value[k], txt.d) = {}
              /\ \A i \in 1..Len(txt.s) :
                     (txt.s[i] = txt.d /\ Escaped(txt.s, i))
                         => \E k \in 1..Len(tres.value) :
                                LET before == Len(Join(SubSeq(tres.value, 1, k - 1), txt.d))
                                                  + (IF k > 1 THEN 1 ELSE 0)
                                IN  /\ before < i /\ i <= before + Len(tres.value[k])
                                    /\ tres.value[k][i - before] = txt.d

\* C29 witness: a string with an escaped delimiter in it and a lone escape
\* character at its end has been given to the constructors and rejected.
C29_Witness ==
    /\ tres.op = "new" /\ tres.value.b06 = IAE
    /\ Len(txt.s) >= 3
    /\ \E i \in 1..Len(txt.s) : txt.s[i] = txt.d /\ Escaped(txt.s, i)
    /\ LoneEscapeAtEnd(txt.s)

(***************************************************************************)
(* Claims about the preconditions (SpecVal).                               *)
(***************************************************************************)
\* The component c passes the component preconditions of receiver n.
AcceptableComponent(n, c) ==
    /\ ~IsNullOrUndefined(c)
    /\ ComponentProperlyMasked(c, n.delimiter)

\* C19: getComponent, remove and (given an acceptable component)
\* setComponent raise IllegalArgumentException exactly when the index is
\* outside 0..count-1, and insert exactly when it is outside 0..count.
C19_IndexPreconditions ==
    /\ vlast.op \in {"getComponent", "remove"}
        => (vlast.outcome = IAE <=> vlast.i \notin 0..(GetNoComponents(recv) - 1))
    /\ (vlast.op = "setComponent" /\ AcceptableComponent(recv, vlast.c))
        => (vlast.outcome = IAE <=> vlast.i \notin 0..(GetNoComponents(recv) - 1))
    /\ (vlast.op = "insert" /\ AcceptableComponent(recv, vlast.c))
        => (vlast.outcome = IAE <=> vlast.i \notin 0..GetNoComponents(recv))

\* The component c breaks a component precondition of receiver n: it is null
\* or undefined, holds the delimiter outside an escape pair, or ends with an
\* unpaired escape character.
RejectedComponent(n, c) ==
    \/ IsNullOrUndefined(c)
    \/ BareDelimiters(c, n.delimiter) # {}
    \/ LoneEscapeAtEnd(c)

\* C20: setComponent and insert with a valid index, and append, raise
\* IllegalArgumentException for a component that is null or undefined, holds
\* the delimiter unescaped or ends with an unpaired escape character; concat
\* and isEqual raise it for a null or undefined argument.
C20_ComponentPreconditions ==
    /\ (/\ vlast.op = "setComponent"
        /\ vlast.i \in 0..(GetNoComponents(recv) - 1)
        /\ RejectedComponent(recv, vlast.c)) => vlast.outcome = IAE
    /\ (/\ vlast.op = "insert"
        /\ vlast.i \in 0..GetNoComponents(recv)
        /\ RejectedComponent(recv, vlast.c)) => vlast.outcome = IAE
    /\ (vlast.op = "append" /\ RejectedComponent(recv, vlast.c))
           => vlast.outcome = IAE
    /\ (vlast.op \in {"concat", "isEqual"} /\ vlast.other = NullName)
           => vlast.outcome = IAE

\* C20 witness: an insert at the end with a component that ends in an
\* unpaired escape character has raised IllegalArgumentException and has
\* returned no Name.
C20_Witness ==
    /\ vlast.op = "insert"
    /\ vlast.i = GetNoComponents(recv)
    /\ ~IsNullOrUndefined(vlast.c) /\ LoneEscapeAtEnd(vlast.c)
    /\ vlast.outcome = IAE
    /\ ret = NoName

(***************************************************************************)
(* Claims about construction, clone and the string forms (SpecVal).        *)
(***************************************************************************)
\* The delimiter argument d (undefined: the argument is left out) is the
\* empty string, longer than one character, the escape character or null.
RejectedDelimiter(d) ==
    /\ d # Undef
    /\ (d = Null \/ Len(d) # 1 \/ d = <<ESCAPE_CHARACTER>>)

\* The source a constructor of class variant accepts under delimiter d.
AcceptedSource(variant, source, d) ==
    LET ch == IF d = Undef THEN DEFAULT_DELIMITER ELSE d[1]
    IN  IF variant = "B06StringArrayName"
        THEN Len(source) > 0 /\ \A k \in 1..Len(source) : ~RejectedComponent([delimiter |-> ch], source[k])
        ELSE ~LoneEscapeAtEnd(source)

\* C21: a constructor called with a rejected delimiter raises
\* IllegalArgumentException and yields no Name; with any other delimiter and
\* a source it accepts it yields a Name with that delimiter; asString
\* rejects the same delimiters and accepts every other one.
C21_DelimiterValidation ==
    /\ (vlast.op = "new" /\ RejectedDelimiter(vlast.d))
           => vlast.outcome = IAE /\ recv = NoName
    /\ (vlast.op = "new" /\ ~RejectedDelimiter(vlast.d)
            /\ recv # NoName)
           => /\ vlast.outcome = OK_
              /\ recv.delimiter = (IF vlast.d = Undef THEN DEFAULT_DELIMITER ELSE vlast.d[1])
    /\ (vlast.op = "new" /\ ~RejectedDelimiter(vlast.d)
            /\ AcceptedSource(vlast.variant, vlast.source, vlast.d))
           => vlast.outcome = OK_ /\ recv # NoName
    /\ vlast.op = "asString"
           => (vlast.outcome = IAE <=> RejectedDelimiter(vlast.d))

\* C21 witness: a constructor called with the escape character as delimiter
\* and an acceptable source has raised IllegalArgumentException.
C21_Witness ==
    /\ vlast.op = "new" /\ vlast.d = <<ESCAPE_CHARACTER>>
    /\ vlast.source # EMPTY /\ vlast.source # <<EMPTY>>
    /\ vlast.outcome = IAE /\ recv = NoName

\* C22: a constructor called with the empty string or the empty list raises
\* IllegalArgumentException, so no constructor call yields a Name without
\* components.
C22_EmptyConstructionRejected ==
    vlast.op = "new"
        => /\ (vlast.source = EMPTY => vlast.outcome = IAE /\ recv = NoName)
           /\ (recv # NoName => GetNoComponents(recv) > 0)

\* The decoded components of n, in order.
DecodedComponents(n) ==
    [k \in 1..GetNoComponents(n) |-> doUnmask(StoredComponents(n)[k])]

\* C24: asString(delimiter) returns the decoded components joined by the
\* given delimiter (the Name's own when none is given), and a call of
\* asString leaves the delimiter, the count and every stored component of
\* the receiver as they were.
C24_AsStringJoinsDecoded ==
    /\ [](vlast.op = "asString" /\ vlast.outcome = OK_
            => vlast.value =
                 Join(DecodedComponents(recv),
                      IF vlast.d = Undef THEN recv.delimiter ELSE vlast.d[1]))
    /\ [][vlast'.op = "asString"
            => /\ recv'.delimiter = recv.delimiter
               /\ GetNoComponents(recv') = GetNoComponents(recv)
               /\ StoredComponents(recv') = StoredComponents(recv)]_vars

\* C24 witness: asString('#') has been called on a Name with delimiter '.'
\* that has several components, one of them with an escape character, and
\* has returned a string with '#' in it.
C24_Witness ==
    /\ vlast.op = "asString" /\ vlast.outcome = OK_
    /\ vlast.d = <<"#">> /\ recv.delimiter = DEFAULT_DELIMITER
    /\ GetNoComponents(recv) >= 2
    /\ \E k \in 1..GetNoComponents(recv) :
           \E j \in 1..Len(StoredComponents(recv)[k]) :
               StoredComponents(recv)[k][j] = ESCAPE_CHARACTER
    /\ \E j \in 1..Len(vlast.value) : vlast.value[j] = "#"

(***************************************************************************)
(* Further claims about the canonical string and the hash (SpecEq).        *)
(***************************************************************************)
\* The decoded components of n, each encoded for the default delimiter and
\* joined with it.
CanonicalString(n) ==
    Join([k \in 1..GetNoComponents(n) |->
             doMask(DecodedComponents(n)[k], DEFAULT_DELIMITER)],
         DEFAULT_DELIMITER)

\* C25: asDataString is the canonical string of the decoded components
\* whatever the Name's delimiter, so Names with the same decoded components
\* have the same data string.
C25_DataStringIgnoresDelimiter ==
    (cmp.op = "compare" /\ cmp.outcome = OK_)
        => /\ cmp.da = CanonicalString(na)
           /\ cmp.db = CanonicalString(nb)
           /\ (DecodedComponents(na) = DecodedComponents(nb) => cmp.da = cmp.db)

\* The polynomial hash of s without machine arithmetic: h starts at 0 and
\* becomes 31 * h + c modulo 2^32 for each character code c. h is kept as
\* two halves of 16 bits, h = 65536 * hi + lo.
RECURSIVE PolynomialFrom(_, _, _, _)
PolynomialFrom(s, i, hi, lo) ==
    IF i > Len(s) THEN <<hi, lo>>
    ELSE LET low == 31 * lo + CharCode(s[i])
         IN  PolynomialFrom(s, i + 1, (31 * hi + (low \div 65536)) % 65536, low % 65536)

\* The number in [-2^31, 2^31 - 1] that is congruent to the polynomial hash.
SignedPolynomial(s) ==
    LET h == PolynomialFrom(s, 1, 0, 0)
    IN  IF h[1] >= 32768 THEN (h[1] - 65536) * 65536 + h[2]
        ELSE h[1] * 65536 + h[2]

\* C30: getHashCode depends on asDataString() alone: it is the polynomial
\* hash (31 * h + c for each character code, from 0) of the data string,
\* wrapped to signed 32 bits; it lies in [-2^31, 2^31 - 1], is 0 for the
\* empty data string, and is the same for two Names with the same data
\* string.
C30_HashOfDataString ==
    (cmp.op = "compare" /\ cmp.outcome = OK_)
        => /\ cmp.ha = SignedPolynomial(cmp.da)
           /\ cmp.hb = SignedPolynomial(cmp.db)
           /\ cmp.ha >= MinInt32 /\ cmp.ha <= MaxInt32
           /\ (cmp.da = EMPTY => cmp.ha = 0)
           /\ (cmp.da = cmp.db => cmp.ha = cmp.hb)

\* C30 witness: two Names with different delimiters and the same data
\* string, the longest of the model (LongLen components), were asked for
\* their hash codes; at that length the polynomial has passed 2^32.
C30_Witness ==
    /\ cmp.op = "compare" /\ cmp.outcome = OK_
    /\ na.delimiter # nb.delimiter
    /\ cmp.da = cmp.db /\ Len(cmp.da) = 2 * LongLen - 1
    /\ cmp.ha = cmp.hb /\ cmp.ha # 0

(***************************************************************************)
(* Claims about the loop of concat (SpecLoop).                             *)
(***************************************************************************)
\* What the loop has still to go: other.getNoComponents() - i.
LoopDistance == OtherCount - mlast.i

\* C26: every call of concat on a mutable Name terminates, also
\* self.concat(self): each iteration of the loop brings i closer to
\* other.getNoComponents(), so the loop ends after finitely many appends.
C26_ConcatTerminates ==
    [][(Running /\ Running') => LoopDistance' < LoopDistance]_vars

(***************************************************************************)
(* Further claims about the mutable Names (SpecMut).                       *)
(***************************************************************************)
\* C23: clone() on a mutable Name returns normally a Name with the
\* receiver's delimiter and components, also when remove has emptied the
\* receiver.
C23_CloneReturnsEqualName ==
    mlast.op = "clone"
        => /\ mlast.outcome = OK_
           /\ mlast.made # NoName
           /\ mlast.made.delimiter = mut.delimiter
           /\ StoredComponents(mlast.made) = StoredComponents(mut)

\* C27: in the flat-string StringName that caches its count (b03), the
\* cached count is the number of components the tokenizer finds in the
\* stored string, and getComponent(i) is a string for every i below it.
C27_CachedCountMatchesString ==
    mut.variant = "B03StringName" =>
        /\ mut.noComponents = Len(parseComponents(mut.name, mut.delimiter))
        /\ \A i \in 0..(mut.noComponents - 1) : DoGetComponent(mut, i) # Undef

\* C28: on the contract-checked Name with array storage (b04), no call of
\* setComponent, insert, append, remove, clone or concat with another Name
\* ends with MethodFailedException: a call whose arguments meet the
\* preconditions never fails its own postcondition.
C28_NoMethodFailure ==
    (/\ mut.variant = "B04StringArrayName"
     /\ mlast.op \in {"setComponent", "insert", "append", "remove", "clone", "concat"})
        => mlast.outcome # MFE
\* A remove whose arguments met the preconditions has returned normally and
\* left components behind.
C28_Witness ==
    /\ mut.variant = "B04StringArrayName"
    /\ mlast.op = "remove" /\ mlast.outcome = OK_
    /\ Len(mut.components) = MaxComps - 1

====
